---- MODULE Spec2Model ----
(***************************************************************************)
(* Machine reconciliation engine of machine-api-provider-gcp.              *)
(*                                                                         *)
(* The stored Machine resource and the cloud (instance, target pools,      *)
(* control-plane instance group, backend service) are the state.  Every    *)
(* actuator call builds a scope over the stored machine, runs one          *)
(* Reconciler method and, for Create and Update, closes the scope.  The    *)
(* record `last' keeps what the latest call did: the cloud calls it issued *)
(* in order, its return value and the scope before and after, `prev' the   *)
(* events of the call before it when that was an Update that succeeded.    *)
(***************************************************************************)
EXTENDS Integers, Sequences, FiniteSets, TLC

VARIABLES machine, cloud, clock, last, prev, recon, merge, built, filter

vars == <<machine, cloud, clock, last, prev, recon, merge, built, filter>>

\* the variables of the specifications that run beside the actuator calls
aside == <<recon, merge, built, filter>>

(***************************************************************************)
(* Bounds                                                                  *)
(***************************************************************************)
\* Largest value of the wall clock that stamps Status.LastUpdated.
MaxClock == 2

\* Largest index of a label key that the infrastructure or a provider spec
\* declares.
MaxLabelKey == 34

\* Largest index of a tag key that the infrastructure or a provider spec
\* declares.
MaxTagKey == 52

(***************************************************************************)
(* Program constants                                                       *)
(***************************************************************************)
requeueAfterSeconds == 20

masterMachineRole == "master"

openshiftMachineRoleLabel == "machine.openshift.io/cluster-api-machine-role"

MachineClusterIDLabel == "machine.openshift.io/cluster-api-cluster"

MachineCreated == "MachineCreated"

\* Identity of the one machine the model reconciles.
MachineName == "m"

ClusterID == "CLUSTERID"

ProjectID == "P"

(***************************************************************************)
(* Go maps: a missing key reads as the empty string.                       *)
(***************************************************************************)
MapGet(m, k) == IF k \in DOMAIN m THEN m[k] ELSE ""

MapPut(m, k, v) == [x \in (DOMAIN m) \cup {k} |-> IF x = k THEN v ELSE m[x]]

EmptyMap == [x \in {} |-> ""]

\* a Go map: a nil map and an empty map have the same entries
NilMap == [nil |-> TRUE, m |-> EmptyMap]

MakeMap(m) == [nil |-> FALSE, m |-> m]

\* strings.Contains, at the granularity of the words of a message.
Contains(msg, word) == \E i \in 1..Len(msg) : msg[i] = word

(***************************************************************************)
(* Errors returned by the reconciler                                       *)
(***************************************************************************)
Nil == [kind |-> "nil", msg |-> <<>>, after |-> 0]

\* machinecontroller.InvalidMachineConfiguration
InvalidMachineConfiguration(msg) == [kind |-> "IC", msg |-> msg, after |-> 0]

\* fmt.Errorf with %v: the cause's type is lost, only its text survives.
Errorf(msg) == [kind |-> "Error", msg |-> msg, after |-> 0]

\* machinecontroller.RequeueAfterError
RequeueAfterError(seconds) == [kind |-> "Requeue", msg |-> <<>>, after |-> seconds]

isInvalidMachineConfigurationError(err) == err.kind = "IC"

\* fmt.Errorf with %w: the text gets a prefix and the cause stays reachable
\* to errors.As
Wrapw(prefix, err) == [kind |-> "Wrapped", msg |-> prefix \o err.msg, after |-> 0, cause |-> err]

scopeFailFmt == <<"failed to create scope for machine">>

reconcilerFailFmt(eventAction) == <<"reconciler failed to", eventAction, "machine">>

createEventAction == "Create"

updateEventAction == "Update"

deleteEventAction == "Delete"

noEventAction == ""

(***************************************************************************)
(* Errors returned by the compute service                                  *)
(***************************************************************************)
NoErr == [google |-> FALSE, code |-> 0, errors |-> <<>>, text |-> "nil"]

\* a *googleapi.Error with its HTTP code and its error items
GoogleError(code, items, text) == [google |-> TRUE, code |-> code, errors |-> items, text |-> text]

\* any other error value (errors.New, a transport error)
PlainError(text) == [google |-> FALSE, code |-> 0, errors |-> <<>>, text |-> text]

\* fmt.Sprintf("'projects/%s'", projectID)
ProjectRef(projectID) == IF projectID = ProjectID THEN "'projects/P'" ELSE "'projects/?'"

ErrProjectNotFound ==
    GoogleError(404, <<[message |-> <<"The resource", "'projects/P'", "was not found">>, reason |-> "notFound"]>>, "project not found")

ErrInvalidZone ==
    GoogleError(400, <<[message |-> <<"Invalid value for field", "'zone'", "Unknown zone">>, reason |-> "invalid"]>>, "invalid zone")

ErrInstanceNotFound ==
    GoogleError(404, <<[message |-> <<"The resource", "'projects/P/zones/z/instances/m'", "was not found">>, reason |-> "notFound"]>>, "instance not found")

\* an invalid-zone body carried by a 404 response
ErrZoneShaped404 ==
    GoogleError(404, <<[message |-> <<"Invalid value for field", "'zone'", "Unknown zone">>, reason |-> "invalid"]>>, "zone 404")

ErrOtherProjectNotFound ==
    GoogleError(404, <<[message |-> <<"The resource", "'projects/Q'", "was not found">>, reason |-> "notFound"]>>, "other project not found")

ErrBadRequest ==
    GoogleError(400, <<[message |-> <<"Invalid value for field", "'name'">>, reason |-> "invalid"]>>, "bad request")

ErrZoneRequired ==
    GoogleError(400, <<[message |-> <<"Required field", "'zone'", "not specified">>, reason |-> "required"]>>, "zone required")

ErrForbidden == GoogleError(403, <<>>, "forbidden")

ErrTooLarge == GoogleError(413, <<>>, "too large")

ErrBackend == GoogleError(503, <<>>, "backend error")

ErrInternal == GoogleError(500, <<>>, "internal error")

ErrNotModified == GoogleError(304, <<>>, "not modified")

ErrTransport == PlainError("fail")

ErrGroupNotFound ==
    GoogleError(404, <<[message |-> <<"The resource", "'projects/P/zones/z/instanceGroups/g'", "was not found">>, reason |-> "notFound"]>>, "instance group not found")

\* isNotFoundError taking every error of the API for a missing resource
isNotFoundErrorAnyCode(err) == err.google

isNotFoundError(err) == err.google /\ err.code = 404

isProjectNotFoundError(err, projectID) ==
    /\ err.google
    /\ err.code = 404
    /\ \E i \in 1..Len(err.errors) :
          /\ Contains(err.errors[i].message, ProjectRef(projectID))
          /\ err.errors[i].reason = "notFound"

\* isInvalidZone looking for the 404 of the other two lookups
isInvalidZone404(err) ==
    /\ err.google
    /\ err.code = 404
    /\ \E i \in 1..Len(err.errors) :
          /\ Contains(err.errors[i].message, "'zone'")
          /\ err.errors[i].reason = "invalid"

isInvalidZone(err) ==
    /\ err.google
    /\ err.code = 400
    /\ \E i \in 1..Len(err.errors) :
          /\ Contains(err.errors[i].message, "'zone'")
          /\ err.errors[i].reason = "invalid"

\* strconv.Itoa(code): the decimal digits of a non-negative code
RECURSIVE Itoa(_)
Itoa(n) == IF n < 10 THEN <<n>> ELSE Append(Itoa(n \div 10), n % 10)

\* strings.HasPrefix(strconv.Itoa(code), "4")
HasPrefix4(code) == Itoa(code)[1] = 4

(***************************************************************************)
(* Cloud calls, as recorded in a call log                                  *)
(***************************************************************************)
Call(name, arg) == <<name, arg>>

Issued(calls, name) == \E i \in 1..Len(calls) : calls[i][1] = name

IssuedFor(calls, name, arg) == \E i \in 1..Len(calls) : calls[i] = Call(name, arg)

Count(calls, name, arg) == Cardinality({i \in 1..Len(calls) : calls[i] = Call(name, arg)})

\* env.fail names the cloud calls that fail in this reconciliation
Fails(env, name, arg) == Call(name, arg) \in env.fail

fmtInstanceSelfLink(project, zone, name) == <<"instances", project, zone, name>>

OtherInstanceLink == <<"instances", ProjectID, "z", "other">>

NoInstance == [present |-> FALSE, status |-> "", name |-> "", nics |-> <<>>]

NoProviderID == <<>>

NilString == "<nil>"

\* pointer.StringDeref(p, "")
StringDeref(p) == IF p = NilString THEN "" ELSE p

(***************************************************************************)
(* Provider status, its conditions and its codec                           *)
(***************************************************************************)
EmptyProviderStatus == [instanceID |-> NilString, instanceState |-> NilString, conditions |-> <<>>]

NoRaw == [present |-> FALSE, value |-> EmptyProviderStatus]

\* util.RawExtensionFromProviderStatus
RawExtensionFromProviderStatus(ps) == [present |-> TRUE, value |-> ps]

\* util.ProviderStatusFromRawExtension: a nil extension decodes to the empty status
ProviderStatusFromRawExtension(raw) == IF raw.present THEN raw.value ELSE EmptyProviderStatus

succeedCondition ==
    [type |-> MachineCreated, status |-> "True",
     reason |-> "MachineCreationSucceeded", message |-> "Machine successfully created"]

failedCondition(text) ==
    [type |-> MachineCreated, status |-> "False",
     reason |-> "MachineCreationFailed", message |-> text]

NoCondition == [type |-> "", status |-> "", reason |-> "", message |-> ""]

shouldUpdateCondition(old, new) ==
    \/ old.reason # new.reason
    \/ old.message # new.message
    \/ old.status # new.status

\* the condition list with the condition of new's type replaced by new when
\* they differ, or with new appended when the list has none of that type
reconcileConditions(conditions, new) ==
    IF \E i \in 1..Len(conditions) : conditions[i].type = new.type
    THEN LET first == CHOOSE i \in 1..Len(conditions) :
                         /\ conditions[i].type = new.type
                         /\ \A j \in 1..(i - 1) : conditions[j].type # new.type
         IN IF shouldUpdateCondition(conditions[first], new)
            THEN [conditions EXCEPT ![first] = new]
            ELSE conditions
    ELSE Append(conditions, new)

(***************************************************************************)
(* Scope                                                                   *)
(***************************************************************************)
\* util.GetCredentialsSecret: the failure to resolve the credentials
GetCredentialsSecret(env) ==
    IF env.scope = "credentials"
    THEN InvalidMachineConfiguration(<<"credentials secret not found">>)
    ELSE Nil

\* newMachineScope failing at the clients with a plain error
newMachineScopeErrPlainClientError(m, env) ==
    IF env.scope = "providerSpec"
    THEN InvalidMachineConfiguration(<<"failed to get machine config">>)
    ELSE IF env.scope = "providerStatus"
    THEN InvalidMachineConfiguration(<<"failed to get machine provider status">>)
    ELSE IF GetCredentialsSecret(env) # Nil
    THEN GetCredentialsSecret(env)
    ELSE IF env.scope = "projectID"
    THEN InvalidMachineConfiguration(<<"error getting project from JSON key">>)
    ELSE IF env.scope = "computeEndpoint"
    THEN InvalidMachineConfiguration(<<"error getting compute service endpoint">>)
    ELSE IF env.scope = "tagsEndpoint"
    THEN InvalidMachineConfiguration(<<"error getting tag manager service endpoint">>)
    ELSE IF env.scope = "computeService"
    THEN Errorf(<<"error creating compute service">>)
    ELSE IF env.scope = "tagService"
    THEN Errorf(<<"error creating tag service">>)
    ELSE Nil

\* newMachineScope up to the construction of the scope: the error of the
\* first step that fails, Nil when the scope is built.  env.scope names the
\* step that fails in this call: the payload of the spec or of the status
\* does not decode, the credentials do not resolve, the spec names no
\* project and the key names none, the lookup of a custom endpoint fails
\* with the gate enabled, or a client builder fails.
newMachineScopeErr(m, env) ==
    IF env.scope = "providerSpec"
    THEN InvalidMachineConfiguration(<<"failed to get machine config">>)
    ELSE IF env.scope = "providerStatus"
    THEN InvalidMachineConfiguration(<<"failed to get machine provider status">>)
    ELSE IF GetCredentialsSecret(env) # Nil
    THEN GetCredentialsSecret(env)
    ELSE IF env.scope = "projectID"
    THEN InvalidMachineConfiguration(<<"error getting project from JSON key">>)
    ELSE IF env.scope = "computeEndpoint"
    THEN InvalidMachineConfiguration(<<"error getting compute service endpoint">>)
    ELSE IF env.scope = "tagsEndpoint"
    THEN InvalidMachineConfiguration(<<"error getting tag manager service endpoint">>)
    ELSE IF env.scope = "computeService"
    THEN InvalidMachineConfiguration(<<"error creating compute service">>)
    ELSE IF env.scope = "tagService"
    THEN InvalidMachineConfiguration(<<"error creating tag service">>)
    ELSE Nil

\* newMachineScope: the working machine, the decoded spec and status, the
\* derived identifiers and the pristine copies
newMachineScope(m) ==
    [machine |-> m,
     providerSpec |-> m.providerSpec,
     providerStatus |-> ProviderStatusFromRawExtension(m.providerStatusRaw),
     projectID |-> ProjectID,
     providerID |-> <<"gce", ProjectID, m.providerSpec.zone, MachineName>>,
     origMachine |-> m,
     origProviderStatus |-> ProviderStatusFromRawExtension(m.providerStatusRaw)]

(***************************************************************************)
(* Reconciler: validation and existence                                    *)
(***************************************************************************)
validateMachine(m, spec) ==
    IF \E i \in 1..Len(spec.targetPools) : spec.targetPools[i] = ""
    THEN InvalidMachineConfiguration(<<"all target pools must have valid name">>)
    ELSE IF MapGet(m.labels, MachineClusterIDLabel) = ""
         THEN InvalidMachineConfiguration(<<"machine is missing label">>)
         ELSE Nil

\* computeService.InstancesGet: the injected failure, else 404 for an
\* instance the cloud does not have
InstancesGet(c, env) ==
    IF env.getErr # NoErr THEN [err |-> env.getErr, instance |-> NoInstance]
    ELSE IF ~c.instance.present THEN [err |-> ErrInstanceNotFound, instance |-> NoInstance]
    ELSE [err |-> NoErr, instance |-> c.instance]

NoEx == [called |-> FALSE, found |-> FALSE, err |-> Nil, lookup |-> NoErr, calls |-> <<>>]

exists(s, c, env) ==
    IF validateMachine(s.machine, s.providerSpec) # Nil
    THEN [called |-> TRUE, found |-> FALSE,
          err |-> Errorf(<<"failed validating machine provider spec">>
                          \o validateMachine(s.machine, s.providerSpec).msg),
          lookup |-> NoErr, calls |-> <<>>]
    ELSE LET g == InstancesGet(c, env)
             calls == <<Call("InstancesGet", "")>>
         IN IF g.err # NoErr
            THEN IF isProjectNotFoundError(g.err, s.projectID)
                 THEN [called |-> TRUE, found |-> FALSE,
                       err |-> InvalidMachineConfiguration(<<"Project does not exist">>),
                       lookup |-> g.err, calls |-> calls]
                 ELSE IF isInvalidZone(g.err)
                 THEN [called |-> TRUE, found |-> FALSE,
                       err |-> InvalidMachineConfiguration(<<"Zone does not exist">>),
                       lookup |-> g.err, calls |-> calls]
                 ELSE IF isNotFoundError(g.err)
                 THEN [called |-> TRUE, found |-> FALSE, err |-> Nil,
                       lookup |-> g.err, calls |-> calls]
                 ELSE [called |-> TRUE, found |-> FALSE,
                       err |-> Errorf(<<"error getting running instances", g.err.text>>),
                       lookup |-> g.err, calls |-> calls]
            ELSE [called |-> TRUE, found |-> TRUE, err |-> Nil,
                  lookup |-> NoErr, calls |-> calls]

(***************************************************************************)
(* Reconciler: target pools                                                *)
(***************************************************************************)
\* TargetPoolsGet without the scan: the instance is never found in the pool
instanceExistsInPoolNeverFound(s, c, env, instanceLink, pool) ==
    IF Fails(env, "TargetPoolsGet", pool) \/ pool \notin DOMAIN c.pools
    THEN [present |-> FALSE, err |-> Errorf(<<"unable to get targetpool">>)]
    ELSE [present |-> FALSE, err |-> Nil]

\* TargetPoolsGet followed by the link-equality scan
instanceExistsInPool(s, c, env, instanceLink, pool) ==
    IF Fails(env, "TargetPoolsGet", pool) \/ pool \notin DOMAIN c.pools
    THEN [present |-> FALSE, err |-> Errorf(<<"unable to get targetpool">>)]
    ELSE [present |-> \E i \in 1..Len(c.pools[pool]) : c.pools[pool][i] = instanceLink,
          err |-> Nil]

addInstanceToTargetPool(s, c, env, instanceLink, pool) ==
    IF Fails(env, "TargetPoolsAddInstance", pool) \/ pool \notin DOMAIN c.pools
    THEN [c |-> c, err |-> Errorf(<<"failed to add instance to target pool">>)]
    ELSE [c |-> [c EXCEPT !.pools[pool] = Append(@, instanceLink)], err |-> Nil]

deleteInstanceFromTargetPool(s, c, env, instanceLink, pool) ==
    IF Fails(env, "TargetPoolsRemoveInstance", pool) \/ pool \notin DOMAIN c.pools
    THEN [c |-> c, err |-> Errorf(<<"failed to remove instance from target pool">>)]
    ELSE [c |-> [c EXCEPT !.pools[pool] = SelectSeq(@, LAMBDA l : l # instanceLink)],
          err |-> Nil]

\* the poolProcessor handed to processTargetPools
poolFunc(action, s, c, env, instanceLink, pool) ==
    IF action = "add"
    THEN addInstanceToTargetPool(s, c, env, instanceLink, pool)
    ELSE deleteInstanceFromTargetPool(s, c, env, instanceLink, pool)

poolFuncCall(action) ==
    IF action = "add" THEN "TargetPoolsAddInstance" ELSE "TargetPoolsRemoveInstance"

NoPtp == [called |-> FALSE, desired |-> FALSE, action |-> "", c |-> <<>>, ret |-> Nil, calls |-> <<>>]

\* processTargetPools acting on every pool that lacks the instance, whatever
\* the desired membership
RECURSIVE processTargetPoolsFromAbsent(_, _, _, _, _, _, _)
processTargetPoolsFromAbsent(s, c, env, desired, action, i, calls) ==
    IF i > Len(s.providerSpec.targetPools)
    THEN [called |-> TRUE, desired |-> desired, action |-> action, c |-> c, ret |-> Nil, calls |-> calls]
    ELSE LET pool == s.providerSpec.targetPools[i]
             link == fmtInstanceSelfLink(s.projectID, s.providerSpec.zone, MachineName)
             chk == instanceExistsInPool(s, c, env, link, pool)
             calls1 == Append(calls, Call("TargetPoolsGet", pool))
         IN IF chk.err # Nil
            THEN [called |-> TRUE, desired |-> desired, action |-> action, c |-> c, ret |-> chk.err, calls |-> calls1]
            ELSE IF ~chk.present
            THEN LET f == poolFunc(action, s, c, env, link, pool)
                     calls2 == Append(calls1, Call(poolFuncCall(action), pool))
                 IN IF f.err # Nil
                    THEN [called |-> TRUE, desired |-> desired, action |-> action, c |-> f.c, ret |-> f.err, calls |-> calls2]
                    ELSE processTargetPoolsFromAbsent(s, f.c, env, desired, action, i + 1, calls2)
            ELSE processTargetPoolsFromAbsent(s, c, env, desired, action, i + 1, calls1)

\* the loop of processTargetPools from the i-th named pool on
RECURSIVE processTargetPoolsFrom(_, _, _, _, _, _, _)
processTargetPoolsFrom(s, c, env, desired, action, i, calls) ==
    IF i > Len(s.providerSpec.targetPools)
    THEN [called |-> TRUE, desired |-> desired, action |-> action, c |-> c, ret |-> Nil, calls |-> calls]
    ELSE LET pool == s.providerSpec.targetPools[i]
             link == fmtInstanceSelfLink(s.projectID, s.providerSpec.zone, MachineName)
             chk == instanceExistsInPool(s, c, env, link, pool)
             calls1 == Append(calls, Call("TargetPoolsGet", pool))
         IN IF chk.err # Nil
            THEN [called |-> TRUE, desired |-> desired, action |-> action, c |-> c, ret |-> chk.err, calls |-> calls1]
            ELSE IF chk.present # desired
            THEN LET f == poolFunc(action, s, c, env, link, pool)
                     calls2 == Append(calls1, Call(poolFuncCall(action), pool))
                 IN IF f.err # Nil
                    THEN [called |-> TRUE, desired |-> desired, action |-> action, c |-> f.c, ret |-> f.err, calls |-> calls2]
                    ELSE processTargetPoolsFrom(s, f.c, env, desired, action, i + 1, calls2)
            ELSE processTargetPoolsFrom(s, c, env, desired, action, i + 1, calls1)

processTargetPools(s, c, env, desired, action) ==
    processTargetPoolsFrom(s, c, env, desired, action, 1, <<>>)

(***************************************************************************)
(* Reconciler: control-plane instance group and backend service            *)
(***************************************************************************)
controlPlaneGroupName(s) ==
    <<MapGet(s.machine.labels, MachineClusterIDLabel), masterMachineRole, s.providerSpec.zone>>

FQDNInstanceGroup(s) ==
    <<"instanceGroups", s.projectID, s.providerSpec.zone, controlPlaneGroupName(s)>>

OtherGroupLink == <<"instanceGroups", ProjectID, "y", <<ClusterID, masterMachineRole, "y">>>>

\* the network and subnetwork of the interface that carries the expected
\* names, else those of the first declared interface
ensureCorrectNetworkAndSubnetName(s) ==
    LET net == <<MapGet(s.machine.labels, MachineClusterIDLabel), "network">>
        sub == <<MapGet(s.machine.labels, MachineClusterIDLabel),
                 MapGet(s.machine.labels, openshiftMachineRoleLabel), "subnet">>
        nics == s.providerSpec.networkInterfaces
    IN IF \E i \in 1..Len(nics) : nics[i].network = net /\ nics[i].subnetwork = sub
       THEN <<net, sub>>
       ELSE <<nics[1].network, nics[1].subnetwork>>

registerNewInstanceGroup(s, c, env) ==
    IF Fails(env, "InstanceGroupInsert", "")
    THEN [c |-> c, err |-> Errorf(<<"instanceGroupInsert request failed">>)]
    ELSE [c |-> [c EXCEPT !.group = [present |-> TRUE, instances |-> {},
                                     network |-> ensureCorrectNetworkAndSubnetName(s)[1],
                                     subnetwork |-> ensureCorrectNetworkAndSubnetName(s)[2]]],
          err |-> Nil]

checkRegistrationOfBackend(s, c, env) ==
    IF Fails(env, "BackendServiceGet", "check")
    THEN [registered |-> FALSE, err |-> Errorf(<<"backendServiceGet request failed">>)]
    ELSE [registered |-> \E i \in 1..Len(c.backends) : c.backends[i] = FQDNInstanceGroup(s),
          err |-> Nil]

updateBackendServiceWithInstanceGroup(s, c, env) ==
    IF Fails(env, "BackendServiceGet", "update")
    THEN [c |-> c, err |-> Errorf(<<"backendServiceGet request failed">>),
          calls |-> <<Call("BackendServiceGet", "update")>>]
    ELSE IF Fails(env, "AddInstanceGroupToBackendService", "")
    THEN [c |-> c, err |-> Errorf(<<"addInstanceGroupToBackendService request failed">>),
          calls |-> <<Call("BackendServiceGet", "update"), Call("AddInstanceGroupToBackendService", "")>>]
    ELSE [c |-> [c EXCEPT !.backends = Append(@, FQDNInstanceGroup(s))], err |-> Nil,
          calls |-> <<Call("BackendServiceGet", "update"), Call("AddInstanceGroupToBackendService", "")>>]

\* the second half of ensureInstanceGroup: backend registration
ensureBackend(s, c, env, calls) ==
    LET chk == checkRegistrationOfBackend(s, c, env)
        calls1 == Append(calls, Call("BackendServiceGet", "check"))
    IN IF chk.err # Nil
       THEN [c |-> c, ret |-> Errorf(<<"failed to retrieve the backend service">>), calls |-> calls1]
       ELSE IF ~chk.registered
       THEN LET u == updateBackendServiceWithInstanceGroup(s, c, env)
            IN IF u.err # Nil
               THEN [c |-> u.c, ret |-> Errorf(<<"failed to update the backend service">>),
                     calls |-> calls1 \o u.calls]
               ELSE [c |-> u.c, ret |-> Nil, calls |-> calls1 \o u.calls]
       ELSE [c |-> c, ret |-> Nil, calls |-> calls1]

\* computeService.InstanceGroupGet: the injected failure, else 404 for a
\* group the cloud does not have
InstanceGroupGet(c, env) ==
    IF Fails(env, "InstanceGroupGet", "") THEN ErrInternal
    ELSE IF ~c.group.present THEN ErrGroupNotFound
    ELSE NoErr

ensureInstanceGroup(s, c, env) ==
    LET calls == <<Call("InstanceGroupGet", "")>>
    IN IF ~isNotFoundError(InstanceGroupGet(c, env)) /\ InstanceGroupGet(c, env) # NoErr
       THEN [c |-> c, ret |-> Errorf(<<"instanceGroupGet request failed">>), calls |-> calls]
       ELSE IF isNotFoundError(InstanceGroupGet(c, env))
       THEN LET n == registerNewInstanceGroup(s, c, env)
                calls1 == Append(calls, Call("InstanceGroupInsert", ""))
            IN IF n.err # Nil
               THEN [c |-> n.c, ret |-> Errorf(<<"failed to register the new instance group">>),
                     calls |-> calls1]
               ELSE ensureBackend(s, n.c, env, calls1)
       ELSE ensureBackend(s, c, env, calls)

\* InstanceGroupsListInstances with the RUNNING filter
fetchRunningInstancesInInstanceGroup(c, env) ==
    IF Fails(env, "InstanceGroupsListInstances", "") \/ ~c.group.present
    THEN [set |-> {}, err |-> Errorf(<<"instanceGroupsListInstances request failed">>)]
    ELSE [set |-> {l \in c.group.instances :
                      \/ l = OtherInstanceLink
                      \/ c.instance.present /\ c.instance.status = "RUNNING"},
          err |-> Nil]

NoReg == [called |-> FALSE, c |-> <<>>, ret |-> Nil, calls |-> <<>>,
          listOK |-> FALSE, listed |-> FALSE, state |-> NilString]

\* what registerInstanceToControlPlaneInstanceGroup hands back, e being the
\* outcome of ensureInstanceGroup
registration(s, e, ret, calls) ==
    [called |-> TRUE, c |-> e.c, ret |-> ret, calls |-> calls,
     listOK |-> FALSE, listed |-> FALSE, state |-> s.providerStatus.instanceState]

\* the test on the running list f, with every instance that the list lacks
\* added, whatever state the provider status records
registerListedWhateverState(s, env, e, calls, f) ==
    LET link == fmtInstanceSelfLink(s.projectID, s.providerSpec.zone, MachineName)
        add == Append(calls, Call("InstanceGroupsAddInstances", ""))
    IN IF link \notin f.set
       THEN IF Fails(env, "InstanceGroupsAddInstances", "")
            THEN [registration(s, e, Errorf(<<"InstanceGroupsAddInstances request failed">>), add)
                    EXCEPT !.listOK = TRUE, !.listed = link \in f.set]
            ELSE [registration(s, e, Nil, add)
                    EXCEPT !.c = [e.c EXCEPT !.group.instances = @ \cup {link}],
                           !.listOK = TRUE, !.listed = link \in f.set]
       ELSE [registration(s, e, Nil, calls) EXCEPT !.listOK = TRUE, !.listed = link \in f.set]

\* registerInstanceToControlPlaneInstanceGroup, from the test on the running
\* list f on
registerListed(s, env, e, calls, f) ==
    LET link == fmtInstanceSelfLink(s.projectID, s.providerSpec.zone, MachineName)
        add == Append(calls, Call("InstanceGroupsAddInstances", ""))
    IN IF link \notin f.set /\ StringDeref(s.providerStatus.instanceState) = "RUNNING"
       THEN IF Fails(env, "InstanceGroupsAddInstances", "")
            THEN [registration(s, e, Errorf(<<"InstanceGroupsAddInstances request failed">>), add)
                    EXCEPT !.listOK = TRUE, !.listed = link \in f.set]
            ELSE [registration(s, e, Nil, add)
                    EXCEPT !.c = [e.c EXCEPT !.group.instances = @ \cup {link}],
                           !.listOK = TRUE, !.listed = link \in f.set]
       ELSE [registration(s, e, Nil, calls) EXCEPT !.listOK = TRUE, !.listed = link \in f.set]

\* registerInstanceToControlPlaneInstanceGroup returning after the fetch of
\* the running instances, with no add
registerFetchedNeverAdding(s, env, e, calls, f) ==
    IF f.err # Nil
    THEN registration(s, e, Errorf(<<"failed to fetch running instances in instance group">>), calls)
    ELSE [registration(s, e, Nil, calls) EXCEPT !.listOK = TRUE, !.listed = FALSE]

\* registerInstanceToControlPlaneInstanceGroup, from the fetch of the running
\* instances f on
registerFetched(s, env, e, calls, f) ==
    IF f.err # Nil
    THEN registration(s, e, Errorf(<<"failed to fetch running instances in instance group">>), calls)
    ELSE registerListed(s, env, e, calls, f)

\* registerInstanceToControlPlaneInstanceGroup, from the outcome e of
\* ensureInstanceGroup on
registerEnsured(s, env, e) ==
    IF e.ret # Nil
    THEN registration(s, e, Errorf(<<"failed to ensure that instance group is a proper instance group">>),
                      e.calls)
    ELSE registerFetched(s, env, e, Append(e.calls, Call("InstanceGroupsListInstances", "")), fetchRunningInstancesInInstanceGroup(e.c, env))

registerInstanceToControlPlaneInstanceGroup(s, c, env) ==
    registerEnsured(s, env, ensureInstanceGroup(s, c, env))

unregisterInstanceFromControlPlaneInstanceGroup(s, c, env) ==
    LET link == fmtInstanceSelfLink(s.projectID, s.providerSpec.zone, MachineName)
        f == fetchRunningInstancesInInstanceGroup(c, env)
        calls == <<Call("InstanceGroupsListInstances", "")>>
    IN IF f.err # Nil
       THEN [c |-> c, ret |-> Errorf(<<"failed to fetch running instances in instance group">>),
             calls |-> calls]
       ELSE IF Cardinality(f.set) > 0 /\ link \in f.set
       THEN IF Fails(env, "InstanceGroupsRemoveInstances", "")
            THEN [c |-> c, ret |-> Errorf(<<"InstanceGroupsRemoveInstances request failed">>),
                  calls |-> Append(calls, Call("InstanceGroupsRemoveInstances", ""))]
            ELSE [c |-> [c EXCEPT !.group.instances = @ \ {link}], ret |-> Nil,
                  calls |-> Append(calls, Call("InstanceGroupsRemoveInstances", ""))]
       ELSE [c |-> c, ret |-> Nil, calls |-> calls]

(***************************************************************************)
(* Reconciler: reconciliation of the machine with the cloud state          *)
(***************************************************************************)
InternalIP(ip) == [type |-> "InternalIP", address |-> <<ip>>]

ExternalIP(ip) == [type |-> "ExternalIP", address |-> <<ip>>]

InternalDNS(name) == [type |-> "InternalDNS", address |-> name]

RECURSIVE externalAddresses(_)
externalAddresses(accessConfigs) ==
    IF accessConfigs = <<>> THEN <<>>
    ELSE <<ExternalIP(Head(accessConfigs).natIP)>> \o externalAddresses(Tail(accessConfigs))

\* the address list derived from the first network interface of the instance
nodeAddresses(s, instance) ==
    <<InternalIP(instance.nics[1].networkIP)>>
       \o externalAddresses(instance.nics[1].accessConfigs)
       \o <<InternalDNS(<<MachineName, s.providerSpec.zone, "c", s.projectID, "internal">>),
            InternalDNS(<<MachineName, "c", s.projectID, "internal">>),
            InternalDNS(<<MachineName>>)>>

\* setMachineCloudProviderSpecifics on a scope whose pristine machine shares
\* the label and annotation maps of the working machine
setMachineCloudProviderSpecificsSharedMaps(s, instance) ==
    LET ann == MapPut(s.machine.annotations, "machine.openshift.io/instance-state", instance.status)
        l1 == MapPut(s.machine.labels, "machine.openshift.io/instance-type", <<s.providerSpec.machineType>>)
        l2 == MapPut(l1, "machine.openshift.io/region", s.providerSpec.region)
        l3 == MapPut(l2, "machine.openshift.io/zone", s.providerSpec.zone)
    IN [s EXCEPT !.machine.annotations = ann, !.machine.labels = l3,
                 !.origMachine.annotations = ann, !.origMachine.labels = l3]

setMachineCloudProviderSpecifics(s, instance) ==
    LET ann == MapPut(s.machine.annotations, "machine.openshift.io/instance-state", instance.status)
        l1 == MapPut(s.machine.labels, "machine.openshift.io/instance-type", <<s.providerSpec.machineType>>)
        l2 == MapPut(l1, "machine.openshift.io/region", s.providerSpec.region)
        l3 == MapPut(l2, "machine.openshift.io/zone", s.providerSpec.zone)
    IN IF s.providerSpec.preemptible
       THEN [s EXCEPT !.machine.annotations = ann,
                      !.machine.labels = MapPut(l3, "machine.openshift.io/interruptible-instance", ""),
                      !.machine.specLabels = MapPut(@, "machine.openshift.io/interruptible-instance", "")]
       ELSE [s EXCEPT !.machine.annotations = ann, !.machine.labels = l3]

NoRmcs == [called |-> FALSE, cond |-> NoCondition, pre |-> <<>>, s |-> <<>>, ret |-> Nil,
           calls |-> <<>>, fetched |-> NoInstance]

\* reconcileMachineWithCloudState(nil) asking for a requeue as soon as it
\* sees that the instance is not running
reconcileWithFreshInstanceEarlyRequeue(s, c, env) ==
    LET g == InstancesGet(c, env)
        base == [called |-> TRUE, cond |-> NoCondition, pre |-> s, s |-> s, ret |-> Nil,
                 calls |-> <<Call("InstancesGet", "")>>, fetched |-> g.instance]
    IN IF g.err # NoErr
       THEN [base EXCEPT !.ret = Errorf(<<"failed to get instance via compute service", g.err.text>>)]
       ELSE IF Len(g.instance.nics) < 1
       THEN [base EXCEPT !.ret = Errorf(<<"could not find network interfaces for instance">>)]
       ELSE IF g.instance.status # "RUNNING"
       THEN [base EXCEPT !.ret = RequeueAfterError(requeueAfterSeconds)]
       ELSE LET s1 == [s EXCEPT !.machine.providerID = s.providerID,
                                !.machine.addresses = nodeAddresses(s, g.instance),
                                !.providerStatus.instanceState = g.instance.status,
                                !.providerStatus.instanceID = g.instance.name,
                                !.providerStatus.conditions = reconcileConditions(@, succeedCondition)]
            IN [base EXCEPT !.s = setMachineCloudProviderSpecifics(s1, g.instance)]

\* reconcileMachineWithCloudState(nil): the else branch, which fetches the
\* instance and reconciles the machine with it
reconcileWithFreshInstance(s, c, env) ==
    LET g == InstancesGet(c, env)
        base == [called |-> TRUE, cond |-> NoCondition, pre |-> s, s |-> s, ret |-> Nil,
                 calls |-> <<Call("InstancesGet", "")>>, fetched |-> g.instance]
    IN IF g.err # NoErr
       THEN [base EXCEPT !.ret = Errorf(<<"failed to get instance via compute service", g.err.text>>)]
       ELSE IF Len(g.instance.nics) < 1
       THEN [base EXCEPT !.ret = Errorf(<<"could not find network interfaces for instance">>)]
       ELSE LET s1 == [s EXCEPT !.machine.providerID = s.providerID,
                                !.machine.addresses = nodeAddresses(s, g.instance),
                                !.providerStatus.instanceState = g.instance.status,
                                !.providerStatus.instanceID = g.instance.name,
                                !.providerStatus.conditions = reconcileConditions(@, succeedCondition)]
                s2 == setMachineCloudProviderSpecifics(s1, g.instance)
            IN IF g.instance.status # "RUNNING"
               THEN [base EXCEPT !.s = s2, !.ret = RequeueAfterError(requeueAfterSeconds)]
               ELSE [base EXCEPT !.s = s2]

\* reconcileMachineWithCloudState without the return that ends the branch of
\* the failed condition
reconcileMachineWithCloudStateFallingThrough(s, c, env, cond) ==
    IF cond # NoCondition
    THEN LET m == [s EXCEPT !.providerStatus.conditions = reconcileConditions(@, cond)]
         IN [reconcileWithFreshInstance(m, c, env) EXCEPT !.cond = cond, !.pre = s]
    ELSE reconcileWithFreshInstance(s, c, env)

reconcileMachineWithCloudState(s, c, env, cond) ==
    IF cond # NoCondition
    THEN [called |-> TRUE, cond |-> cond, pre |-> s,
          s |-> [s EXCEPT !.providerStatus.conditions = reconcileConditions(@, cond)],
          ret |-> Nil, calls |-> <<>>, fetched |-> NoInstance]
    ELSE reconcileWithFreshInstance(s, c, env)

(***************************************************************************)
(* Reconciler: update and delete                                           *)
(***************************************************************************)
\* what a reconciler method hands back: the scope and the cloud as it left
\* them, its return value, the cloud calls it issued and what its parts did
Result(s, c, ret, calls, ex, rmcs, ptp, reg) ==
    [s |-> s, c |-> c, ret |-> ret, calls |-> calls, ex |-> ex, rmcs |-> rmcs,
     ptp |-> ptp, reg |-> reg, insert |-> NoErr]

\* update(), the outcome r of reconcileMachineWithCloudState(nil)
updateReconciled(c, ptp, reg, r) ==
    Result(r.s, c, r.ret, ptp.calls \o reg.calls \o r.calls, NoEx, r, ptp, reg)

\* update(), from the outcome reg of the registration on
updateRegistered(s, env, ptp, reg) ==
    IF reg.ret # Nil
    THEN Result(s, reg.c, Errorf(<<"failed to register instance to instance group">>),
                ptp.calls \o reg.calls, NoEx, NoRmcs, ptp, reg)
    ELSE updateReconciled(reg.c, ptp, reg, reconcileMachineWithCloudState(s, reg.c, env, NoCondition))

\* update() going on to the next step after a failure of the target pools
updateSyncedIgnoringError(s, env, ptp) ==
    IF MapGet(s.machine.labels, openshiftMachineRoleLabel) = masterMachineRole
    THEN updateRegistered(s, env, ptp, registerInstanceToControlPlaneInstanceGroup(s, ptp.c, env))
    ELSE updateReconciled(ptp.c, ptp, NoReg, reconcileMachineWithCloudState(s, ptp.c, env, NoCondition))

\* update(), from the outcome ptp of processTargetPools on
updateSynced(s, env, ptp) ==
    IF ptp.ret # Nil
    THEN Result(s, ptp.c, ptp.ret, ptp.calls, NoEx, NoRmcs, ptp, NoReg)
    ELSE IF MapGet(s.machine.labels, openshiftMachineRoleLabel) = masterMachineRole
    THEN updateRegistered(s, env, ptp, registerInstanceToControlPlaneInstanceGroup(s, ptp.c, env))
    ELSE updateReconciled(ptp.c, ptp, NoReg, reconcileMachineWithCloudState(s, ptp.c, env, NoCondition))

update(s, c, env) ==
    IF validateMachine(s.machine, s.providerSpec) # Nil
    THEN Result(s, c, InvalidMachineConfiguration(<<"failed validating machine provider spec">>
                          \o validateMachine(s.machine, s.providerSpec).msg),
                <<>>, NoEx, NoRmcs, NoPtp, NoReg)
    ELSE updateSynced(s, env, processTargetPools(s, c, env, TRUE, "add"))

\* InstancesDelete is accepted at once; the cloud removes the instance later
InstancesDelete(c, env) ==
    IF Fails(env, "InstancesDelete", "")
    THEN [c |-> c, err |-> ErrTransport]
    ELSE [c |-> [c EXCEPT !.instance.status = "STOPPING"], err |-> NoErr]

\* the end of delete() with an accepted InstancesDelete taken as final
deleteIssuedTerminal(s, calls, ex, ptp, d) ==
    IF d.err # NoErr
    THEN Result(s, d.c, Errorf(<<"failed to delete instance via compute service", d.err.text>>),
                calls, ex, NoRmcs, ptp, NoReg)
    ELSE Result(s, d.c, Nil, calls, ex, NoRmcs, ptp, NoReg)

\* delete(), from the outcome d of InstancesDelete on
deleteIssued(s, calls, ex, ptp, d) ==
    IF d.err # NoErr
    THEN Result(s, d.c, Errorf(<<"failed to delete instance via compute service", d.err.text>>),
                calls, ex, NoRmcs, ptp, NoReg)
    ELSE Result(s, d.c, RequeueAfterError(requeueAfterSeconds), calls, ex, NoRmcs, ptp, NoReg)

\* delete() returning the requeue signal for an instance that exists, with
\* no InstancesDelete
deleteExistingWithoutCall(s, c, env, calls, ex, ptp) ==
    Result(s, c, RequeueAfterError(requeueAfterSeconds), calls, ex, NoRmcs, ptp, NoReg)

\* delete(), from the point where the instance is known to exist
deleteExisting(s, c, env, calls, ex, ptp) ==
    deleteIssued(s, Append(calls, Call("InstancesDelete", "")), ex, ptp, InstancesDelete(c, env))

\* delete() going on to InstancesDelete whatever the removal from the
\* instance group returned
deleteUnregisteredIgnoringError(s, env, calls, ex, ptp, u) ==
    deleteExisting(s, u.c, env, calls \o u.calls, ex, ptp)

\* delete(), from the outcome u of the removal from the instance group on
deleteUnregistered(s, env, calls, ex, ptp, u) ==
    IF u.ret # Nil
    THEN Result(s, u.c, Errorf(<<"failed to unregister instance from instance group">>),
                calls \o u.calls, ex, NoRmcs, ptp, NoReg)
    ELSE deleteExisting(s, u.c, env, calls \o u.calls, ex, ptp)

\* delete() without the refusal for a machine that carries a provider ID
deleteCheckedIgnoringProviderID(s, env, ptp, ex) ==
    IF ex.err # Nil /\ ~isInvalidMachineConfigurationError(ex.err)
    THEN Result(s, ptp.c, ex.err, ptp.calls \o ex.calls, ex, NoRmcs, ptp, NoReg)
    ELSE IF ~ex.found
    THEN Result(s, ptp.c, Nil, ptp.calls \o ex.calls, ex, NoRmcs, ptp, NoReg)
    ELSE IF MapGet(s.machine.labels, openshiftMachineRoleLabel) = masterMachineRole
    THEN deleteUnregistered(s, env, ptp.calls \o ex.calls, ex, ptp, unregisterInstanceFromControlPlaneInstanceGroup(s, ptp.c, env))
    ELSE deleteExisting(s, ptp.c, env, ptp.calls \o ex.calls, ex, ptp)

\* delete(), from the outcome ex of exists() on
deleteChecked(s, env, ptp, ex) ==
    IF s.machine.providerID # NoProviderID /\ isInvalidMachineConfigurationError(ex.err)
    THEN Result(s, ptp.c, Errorf(<<"the machine has invalid configuration, but already exists">>),
                ptp.calls \o ex.calls, ex, NoRmcs, ptp, NoReg)
    ELSE IF ex.err # Nil /\ ~isInvalidMachineConfigurationError(ex.err)
    THEN Result(s, ptp.c, ex.err, ptp.calls \o ex.calls, ex, NoRmcs, ptp, NoReg)
    ELSE IF ~ex.found
    THEN Result(s, ptp.c, Nil, ptp.calls \o ex.calls, ex, NoRmcs, ptp, NoReg)
    ELSE IF MapGet(s.machine.labels, openshiftMachineRoleLabel) = masterMachineRole
    THEN deleteUnregistered(s, env, ptp.calls \o ex.calls, ex, ptp, unregisterInstanceFromControlPlaneInstanceGroup(s, ptp.c, env))
    ELSE deleteExisting(s, ptp.c, env, ptp.calls \o ex.calls, ex, ptp)

\* delete() going on to the existence check whatever processTargetPools
\* returned
deleteSyncedIgnoringError(s, env, ptp) ==
    deleteChecked(s, env, ptp, exists(s, ptp.c, env))

\* delete(), from the outcome ptp of processTargetPools on
deleteSynced(s, env, ptp) ==
    IF ptp.ret # Nil
    THEN Result(s, ptp.c, ptp.ret, ptp.calls, NoEx, NoRmcs, ptp, NoReg)
    ELSE deleteChecked(s, env, ptp, exists(s, ptp.c, env))

delete(s, c, env) ==
    deleteSynced(s, env, processTargetPools(s, c, env, FALSE, "remove"))

(***************************************************************************)
(* Reconciler: create                                                      *)
(***************************************************************************)
NoBool == "nil"

\* restartPolicyToBool restarting preemptible instances too
restartPolicyToBoolIgnoringPreemptible(policy, preemptible) ==
    IF policy = ""
    THEN [value |-> NoBool, err |-> Nil]
    ELSE IF policy = "Always"
    THEN [value |-> "true", err |-> Nil]
    ELSE IF policy = "Never"
    THEN [value |-> "false", err |-> Nil]
    ELSE [value |-> NoBool, err |-> Errorf(<<"unrecognized restart policy", policy>>)]

restartPolicyToBool(policy, preemptible) ==
    IF policy = ""
    THEN [value |-> NoBool, err |-> Nil]
    ELSE IF policy = "Always"
    THEN IF preemptible
         THEN [value |-> NoBool,
               err |-> Errorf(<<"preemptible instances cannot be automatically restarted">>)]
         ELSE [value |-> "true", err |-> Nil]
    ELSE IF policy = "Never"
    THEN [value |-> "false", err |-> Nil]
    ELSE [value |-> NoBool, err |-> Errorf(<<"unrecognized restart policy", policy>>)]

\* strings.HasPrefix(machineType, family + "-")
HasFamily(machineType, family) == machineType[1] = family

supportedGpuTypes(type) ==
    CASE type = "nvidia-tesla-k80" -> "NVIDIA_K80_GPUS"
      [] type = "nvidia-tesla-p100" -> "NVIDIA_P100_GPUS"
      [] type = "nvidia-tesla-v100" -> "NVIDIA_V100_GPUS"
      [] type = "nvidia-tesla-a100" -> "NVIDIA_A100_GPUS"
      [] type = "nvidia-tesla-p4" -> "NVIDIA_P4_GPUS"
      [] type = "nvidia-tesla-t4" -> "NVIDIA_T4_GPUS"
      [] type = "nvidia-a100-80gb" -> "NVIDIA_A100_80GB_GPUS"
      [] OTHER -> ""

\* the quota metric of an accelerator, the same for preemptible instances
quotaMetricIgnoringPreemptible(s, type) == <<supportedGpuTypes(type)>>

\* the quota metric of an accelerator; preemptible instances have their own
quotaMetric(s, type) ==
    IF s.providerSpec.preemptible
    THEN <<"PREEMPTIBLE", supportedGpuTypes(type)>>
    ELSE <<supportedGpuTypes(type)>>

\* the scan of the region's quota list, from entry i on
RECURSIVE quotaScan(_, _, _, _)
quotaScan(quotas, metric, count, i) ==
    IF i > Len(quotas) THEN Nil
    ELSE IF quotas[i].metric = metric
    THEN IF quotas[i].usage + count > quotas[i].limit
         THEN InvalidMachineConfiguration(<<"Quota exceeded">>)
         ELSE Nil
    ELSE IF i = Len(quotas)
    THEN InvalidMachineConfiguration(<<"No quota found">>)
    ELSE quotaScan(quotas, metric, count, i + 1)

checkQuota(s, env, guestAccelerators) ==
    IF Fails(env, "RegionGet", "")
    THEN [err |-> InvalidMachineConfiguration(<<"Failed to get region via compute service">>),
          calls |-> <<Call("RegionGet", "")>>]
    ELSE IF Fails(env, "AcceleratorTypeGet", "")
    THEN [err |-> InvalidMachineConfiguration(<<"AcceleratorType not available in the zone">>),
          calls |-> <<Call("RegionGet", ""), Call("AcceleratorTypeGet", "")>>]
    ELSE IF supportedGpuTypes(guestAccelerators[1].type) = ""
    THEN [err |-> InvalidMachineConfiguration(<<"Unsupported accelerator type">>),
          calls |-> <<Call("RegionGet", ""), Call("AcceleratorTypeGet", "")>>]
    ELSE [err |-> quotaScan(env.quotas, quotaMetric(s, guestAccelerators[1].type),
                            guestAccelerators[1].count, 1),
          calls |-> <<Call("RegionGet", ""), Call("AcceleratorTypeGet", "")>>]

\* GPUCompatibleMachineTypesList: the a2 machine types with their fixed
\* accelerators, and the n1 machine types
a2MachineFamily == [mt \in {<<"a2", "highgpu-1g">>} |-> [type |-> "nvidia-tesla-a100", count |-> 1]]

n1MachineFamily == {<<"n1", "standard-1">>}

validateGuestAccelerators(s, env) ==
    LET mt == s.providerSpec.machineType
        gpus == s.providerSpec.gpus
        list == <<Call("GPUCompatibleMachineTypesList", "")>>
    IN IF Len(gpus) = 0 /\ ~HasFamily(mt, "a2")
       THEN [err |-> Nil, calls |-> <<>>]
       ELSE IF Len(gpus) > 0 /\ HasFamily(mt, "a2")
       THEN [err |-> InvalidMachineConfiguration(<<"A2 Machine types have pre-attached guest accelerators">>),
             calls |-> <<>>]
       ELSE IF ~HasFamily(mt, "n1") /\ ~HasFamily(mt, "a2")
       THEN [err |-> InvalidMachineConfiguration(<<"MachineType does not support accelerators">>),
             calls |-> <<>>]
       ELSE IF mt \in DOMAIN a2MachineFamily
       THEN [err |-> checkQuota(s, env, <<a2MachineFamily[mt]>>).err,
             calls |-> list \o checkQuota(s, env, <<a2MachineFamily[mt]>>).calls]
       ELSE IF mt \in n1MachineFamily
       THEN [err |-> checkQuota(s, env, gpus).err,
             calls |-> list \o checkQuota(s, env, gpus).calls]
       ELSE [err |-> InvalidMachineConfiguration(<<"MachineType is not available in the zone">>),
             calls |-> list]

\* the user-data secret as the core client finds it: env.secret
getCustomUserData(s, env) ==
    IF s.providerSpec.userDataSecret = ""
    THEN [data |-> "", err |-> Nil]
    ELSE IF env.secret = "notFound"
    THEN [data |-> "", err |-> InvalidMachineConfiguration(<<"user data secret not found">>)]
    ELSE IF env.secret = "getError"
    THEN [data |-> "", err |-> Errorf(<<"error getting user data secret">>)]
    ELSE IF env.secret = "noKey"
    THEN [data |-> "", err |-> InvalidMachineConfiguration(<<"secret does not have userData field set">>)]
    ELSE [data |-> "userDataBlob", err |-> Nil]

\* the network interfaces of the instance descriptor, with the addresses the
\* cloud assigns to them
RECURSIVE networkInterfaces(_)
networkInterfaces(nics) ==
    IF nics = <<>> THEN <<>>
    ELSE <<[networkIP |-> "10.0.0.15",
            accessConfigs |-> IF Head(nics).publicIP THEN <<[natIP |-> "35.243.147.143"]>> ELSE <<>>]>>
         \o networkInterfaces(Tail(nics))

ErrConflict == GoogleError(409, <<>>, "already exists")

\* computeService.InstancesInsert: the injected failure, else 409 for an
\* instance the cloud already has, else a new instance being provisioned
InstancesInsert(s, c, env) ==
    IF env.insertErr # NoErr THEN [c |-> c, err |-> env.insertErr]
    ELSE IF c.instance.present THEN [c |-> c, err |-> ErrConflict]
    ELSE [c |-> [c EXCEPT !.instance = [present |-> TRUE, status |-> env.insertStatus,
                                        name |-> MachineName,
                                        nics |-> networkInterfaces(s.providerSpec.networkInterfaces)]],
          err |-> NoErr]

\* create() after a failed InstancesInsert, with every cloud API error taken
\* for a misconfiguration
insertFailedAnyApiError(ins, calls, r) ==
    [Result(r.s, ins.c,
            IF ins.err.google
            THEN InvalidMachineConfiguration(<<"error launching instance", ins.err.text>>)
            ELSE Errorf(<<"failed to create instance via compute service", ins.err.text>>),
            calls \o r.calls, NoEx, r, NoPtp, NoReg)
       EXCEPT !.insert = ins.err]

\* create() after a failed InstancesInsert, r being the outcome of
\* reconcileMachineWithCloudState with the failed condition
insertFailed(ins, calls, r) ==
    [Result(r.s, ins.c,
            IF ins.err.google /\ HasPrefix4(ins.err.code)
            THEN InvalidMachineConfiguration(<<"error launching instance", ins.err.text>>)
            ELSE Errorf(<<"failed to create instance via compute service", ins.err.text>>),
            calls \o r.calls, NoEx, r, NoPtp, NoReg)
       EXCEPT !.insert = ins.err]

\* create() after InstancesInsert, r being the outcome of
\* reconcileMachineWithCloudState(nil)
insertSucceeded(ins, calls, r) ==
    Result(r.s, ins.c, r.ret, calls \o r.calls, NoEx, r, NoPtp, NoReg)

\* create() adding the failed condition to the list whatever the list holds
createInsertedAppendingCondition(s, env, calls, ins) ==
    IF ins.err # NoErr
    THEN insertFailed(ins, calls,
                      [reconcileMachineWithCloudState(s, ins.c, env, failedCondition(ins.err.text))
                         EXCEPT !.s.providerStatus.conditions =
                                    Append(s.providerStatus.conditions, failedCondition(ins.err.text))])
    ELSE insertSucceeded(ins, calls, reconcileMachineWithCloudState(s, ins.c, env, NoCondition))

\* create(), from the outcome ins of InstancesInsert on
createInserted(s, env, calls, ins) ==
    IF ins.err # NoErr
    THEN insertFailed(ins, calls, reconcileMachineWithCloudState(s, ins.c, env, failedCondition(ins.err.text)))
    ELSE insertSucceeded(ins, calls, reconcileMachineWithCloudState(s, ins.c, env, NoCondition))

\* create(), from the InstancesInsert call on
createInstance(s, c, env, calls) ==
    createInserted(s, env, Append(calls, Call("InstancesInsert", "")), InstancesInsert(s, c, env))

(***************************************************************************)
(* util.GetLabelsList: the merge of the labels of a resource               *)
(*                                                                         *)
(* A Go map is a record [nil, m]: a nil map and an empty map have the same *)
(* entries and are told apart by the code.  SpecLabels draws the cluster   *)
(* ID, the platform status and the labels of the provider spec, and its    *)
(* one action merges them.                                                 *)
(***************************************************************************)
\* labels[k] = v for every entry of over, on top of under
Overlay(under, over) ==
    [k \in (DOMAIN under) \cup (DOMAIN over) |-> IF k \in DOMAIN over THEN over[k] ELSE under[k]]

ocpDefaultLabel(clusterID) == <<"kubernetes-io-cluster", clusterID>>

\* the number of labels that OCP and the user may each define
labelLimit == 32

\* the value that the last entry of the list with key k carries
LastValue(list, k) ==
    list[CHOOSE i \in 1..Len(list) :
             /\ list[i][1] = k
             /\ \A j \in (i + 1)..Len(list) : list[j][1] # k][2]

getInfraResourceLabels(platformStatus) ==
    IF ~platformStatus.nil /\ ~platformStatus.resourceLabels.nil
    THEN MakeMap([k \in {platformStatus.resourceLabels.list[i][1] :
                            i \in 1..Len(platformStatus.resourceLabels.list)} |->
                    LastValue(platformStatus.resourceLabels.list, k)])
    ELSE NilMap

getOCPLabels(clusterID) ==
    IF clusterID = ""
    THEN [labels |-> NilMap, err |-> Errorf(<<"cluster ID required for generating OCP tag list">>)]
    ELSE [labels |-> MakeMap([k \in {ocpDefaultLabel(clusterID)} |-> "owned"]), err |-> Nil]

\* the OCP labels copied first, under the labels that the user declares
MergedLabelsOwnershipFirst(clusterID, platform, providerSpecLabels) ==
    Overlay(getOCPLabels(clusterID).labels.m,
            Overlay(getInfraResourceLabels(platform).m, providerSpecLabels.m))

\* infrastructure labels, then provider spec labels, then OCP labels
MergedLabels(clusterID, platform, providerSpecLabels) ==
    Overlay(Overlay(getInfraResourceLabels(platform).m, providerSpecLabels.m),
            getOCPLabels(clusterID).labels.m)

\* GetLabelsList holding the labels of the infrastructure and those of the
\* provider spec against the limit one source at a time
GetLabelsListLimitPerSource(clusterID, platform, providerSpecLabels) ==
    IF getOCPLabels(clusterID).err # Nil
    THEN [labels |-> NilMap, err |-> getOCPLabels(clusterID).err]
    ELSE IF getInfraResourceLabels(platform).nil /\ providerSpecLabels.nil
    THEN [labels |-> getOCPLabels(clusterID).labels, err |-> Nil]
    ELSE IF \/ Cardinality(DOMAIN getInfraResourceLabels(platform).m) > labelLimit
            \/ Cardinality(DOMAIN providerSpecLabels.m) > labelLimit
    THEN [labels |-> NilMap, err |-> Errorf(<<"ocp can define upto 32 labels and user can define upto 32 labels">>)]
    ELSE [labels |-> MakeMap(MergedLabels(clusterID, platform, providerSpecLabels)), err |-> Nil]

GetLabelsList(clusterID, platform, providerSpecLabels) ==
    IF getOCPLabels(clusterID).err # Nil
    THEN [labels |-> NilMap, err |-> getOCPLabels(clusterID).err]
    ELSE IF getInfraResourceLabels(platform).nil /\ providerSpecLabels.nil
    THEN [labels |-> getOCPLabels(clusterID).labels, err |-> Nil]
    ELSE IF \/ Cardinality(DOMAIN getOCPLabels(clusterID).labels.m) > labelLimit
            \/ Cardinality(DOMAIN MergedLabels(clusterID, platform, providerSpecLabels))
                 - Cardinality(DOMAIN getOCPLabels(clusterID).labels.m) > labelLimit
    THEN [labels |-> NilMap, err |-> Errorf(<<"ocp can define upto 32 labels and user can define upto 32 labels">>)]
    ELSE [labels |-> MakeMap(MergedLabels(clusterID, platform, providerSpecLabels)), err |-> Nil]

LabelKey(i) == <<"key", i>>

\* the labels key1..keyN of a source, and the ownership label when the
\* source claims it for itself
SourceKeys(from, to, own) ==
    {LabelKey(i) : i \in from..to} \cup (IF own THEN {ocpDefaultLabel(ClusterID)} ELSE {})

ResourceLabels(to, own) ==
    [i \in 1..to |-> <<LabelKey(i), "infra">>]
      \o (IF own THEN << <<ocpDefaultLabel(ClusterID), "infra">> >> ELSE <<>>)
      \o (IF to > 0 THEN << <<LabelKey(1), "infra again">> >> ELSE <<>>)

\* the platform status of the infrastructure object that create() reads:
\* env.labelsErr stands for an infrastructure that declares one label more
\* than the limit
InfraPlatformStatus(env) ==
    [nil |-> FALSE,
     resourceLabels |-> [nil |-> FALSE,
                         list |-> ResourceLabels(IF env.labelsErr THEN labelLimit + 1 ELSE 2, FALSE)]]

\* create(): the labels of the machine.  The error of GetLabelsList is a
\* fmt.Errorf, so the error that create() wraps around it holds no
\* MachineError for errors.As to find.
machineLabels(s, env) ==
    GetLabelsList(MapGet(s.machine.labels, MachineClusterIDLabel), InfraPlatformStatus(env), NilMap)

ErrTagNotFound == GoogleError(404, <<>>, "tag does not exist")

\* the answers of the tag service to a tag that does not resolve
TagErrors == {ErrTagNotFound, ErrForbidden, ErrInternal}

\* the merged tags of the machine, as parent/key/value names
MergedTags == {<<"openshift", "key1", "value1">>, <<"openshift", "key2", "value2">>,
               <<"openshift", "key5", "value5">>}

\* tagService.GetNamespacedName: env.tagsErr is the answer for the tag key5,
\* the other tags resolve
GetNamespacedName(env, name) ==
    IF name[2] = "key5" /\ env.tagsErr # NoErr
    THEN [tag |-> <<>>, err |-> env.tagsErr]
    ELSE [tag |-> <<"tagKeys", name[2], "tagValues", name[3]>>, err |-> NoErr]

\* util.GetResourceManagerTags: every merged tag is resolved through the tag
\* service; one that does not resolve fails the call, which returns no tags
GetResourceManagerTags(env) ==
    IF \E name \in MergedTags : GetNamespacedName(env, name).err # NoErr
    THEN [tags |-> NilMap, err |-> Errorf(<<"failed to fetch user-defined tag">>)]
    ELSE [tags |-> MakeMap([k \in {GetNamespacedName(env, name).tag[2] : name \in MergedTags} |->
                              CHOOSE v \in {GetNamespacedName(env, name).tag[4] : name \in MergedTags} :
                                  \E name \in MergedTags :
                                      GetNamespacedName(env, name).tag = <<"tagKeys", k, "tagValues", v>>]),
          err |-> Nil]

\* create() going on with the tags that resolved when one did not
preInsertFailureIgnoringTagError(s, env) ==
    LET fail(ret, calls) == [ret |-> ret, calls |-> calls]
        acc == validateGuestAccelerators(s, env)
    IN IF validateMachine(s.machine, s.providerSpec) # Nil
       THEN fail(InvalidMachineConfiguration(<<"failed validating machine provider spec">>
                    \o validateMachine(s.machine, s.providerSpec).msg), <<>>)
       ELSE IF machineLabels(s, env).err # Nil
       THEN fail(Errorf(<<"error getting user-defined labels for machine">>), <<>>)
       ELSE IF restartPolicyToBool(s.providerSpec.restartPolicy, s.providerSpec.preemptible).err # Nil
       THEN fail(InvalidMachineConfiguration(<<"failed to determine restart policy">>), <<>>)
       ELSE IF Len(s.providerSpec.gpus) > 1
       THEN fail(InvalidMachineConfiguration(<<"More than one type of accelerator provided">>), <<>>)
       ELSE IF acc.err # Nil
       THEN fail(acc.err, acc.calls)
       ELSE IF env.diskLabelsErr
       THEN fail(Errorf(<<"error getting user-defined labels for machine disk">>), acc.calls)
       ELSE IF getCustomUserData(s, env).err # Nil
       THEN fail(Errorf(<<"error getting custom user data">> \o getCustomUserData(s, env).err.msg),
                 acc.calls)
       ELSE fail(Nil, acc.calls)

\* create(), up to the InstancesInsert call: the error of the first step that
\* fails, or nil, and the cloud calls issued on the way
preInsertFailure(s, env) ==
    LET fail(ret, calls) == [ret |-> ret, calls |-> calls]
        acc == validateGuestAccelerators(s, env)
    IN IF validateMachine(s.machine, s.providerSpec) # Nil
       THEN fail(InvalidMachineConfiguration(<<"failed validating machine provider spec">>
                    \o validateMachine(s.machine, s.providerSpec).msg), <<>>)
       ELSE IF machineLabels(s, env).err # Nil
       THEN fail(Errorf(<<"error getting user-defined labels for machine">>), <<>>)
       ELSE IF env.tagsEnabled /\ GetResourceManagerTags(env).err # Nil
       THEN fail(Errorf(<<"failed to fetch user-defined tags">>), <<>>)
       ELSE IF restartPolicyToBool(s.providerSpec.restartPolicy, s.providerSpec.preemptible).err # Nil
       THEN fail(InvalidMachineConfiguration(<<"failed to determine restart policy">>), <<>>)
       ELSE IF Len(s.providerSpec.gpus) > 1
       THEN fail(InvalidMachineConfiguration(<<"More than one type of accelerator provided">>), <<>>)
       ELSE IF acc.err # Nil
       THEN fail(acc.err, acc.calls)
       ELSE IF env.diskLabelsErr
       THEN fail(Errorf(<<"error getting user-defined labels for machine disk">>), acc.calls)
       ELSE IF getCustomUserData(s, env).err # Nil
       THEN fail(Errorf(<<"error getting custom user data">> \o getCustomUserData(s, env).err.msg),
                 acc.calls)
       ELSE fail(Nil, acc.calls)

\* create() recording a failed condition for a failure before the insert too
createCheckedRecordingFailure(s, c, env, f) ==
    IF f.ret # Nil
    THEN Result(reconcileMachineWithCloudState(s, c, env, failedCondition(f.ret.msg[1])).s,
                c, f.ret, f.calls, NoEx, NoRmcs, NoPtp, NoReg)
    ELSE createInstance(s, c, env, f.calls)

\* create(), f being the outcome of the steps before the insert
createChecked(s, c, env, f) ==
    IF f.ret # Nil
    THEN Result(s, c, f.ret, f.calls, NoEx, NoRmcs, NoPtp, NoReg)
    ELSE createInstance(s, c, env, f.calls)

create(s, c, env) == createChecked(s, c, env, preInsertFailure(s, env))

(***************************************************************************)
(* Scope: persisting                                                       *)
(***************************************************************************)
\* setMachineStatus comparing the provider status alone
setMachineStatusIgnoringAddresses(s, now) ==
    IF s.providerStatus = s.origProviderStatus
    THEN s
    ELSE [s EXCEPT !.machine.providerStatusRaw = RawExtensionFromProviderStatus(s.providerStatus),
                   !.machine.lastUpdated = now]

\* setMachineStatus: the serialised status and the time stamp are written
\* only when the status or the addresses differ from the pristine copies
setMachineStatus(s, now) ==
    IF s.providerStatus = s.origProviderStatus /\ s.machine.addresses = s.origMachine.addresses
    THEN s
    ELSE [s EXCEPT !.machine.providerStatusRaw = RawExtensionFromProviderStatus(s.providerStatus),
                   !.machine.lastUpdated = now]

setMachineSpec(s) == [s EXCEPT !.machine.providerSpec = s.providerSpec]

\* the stored machine after the patch of the main resource: everything but
\* the status sub-resource
patchedMain(stored, m) ==
    [m EXCEPT !.addresses = stored.addresses,
              !.providerStatusRaw = stored.providerStatusRaw,
              !.lastUpdated = stored.lastUpdated]

\* PatchMachine going on to the status after a failed patch of the machine
PatchMachineIgnoringMainError(s, stored, env) ==
    IF Fails(env, "Patch", "status")
    THEN [stored |-> stored, err |-> Errorf(<<"failed to patch machine status">>),
          patches |-> <<"machine", "status">>]
    ELSE [stored |-> IF Fails(env, "Patch", "machine")
                     THEN [stored EXCEPT !.addresses = s.machine.addresses,
                                         !.providerStatusRaw = s.machine.providerStatusRaw,
                                         !.lastUpdated = s.machine.lastUpdated]
                     ELSE s.machine,
          err |-> Nil, patches |-> <<"machine", "status">>]

\* the status of a machine: what the status sub-resource holds
StatusOf(m) ==
    [addresses |-> m.addresses, providerStatusRaw |-> m.providerStatusRaw,
     lastUpdated |-> m.lastUpdated]

\* the stored machine after the patch of the status sub-resource with the
\* machine m: the status of m and nothing else
patchedStatus(stored, m) ==
    [stored EXCEPT !.addresses = m.addresses,
                   !.providerStatusRaw = m.providerStatusRaw,
                   !.lastUpdated = m.lastUpdated]

\* PatchMachine going on with the machine as the patch of the main resource
\* left it: the answer of the server, its status included
withStatusOfAnswer(answer, statusCopy) == answer

\* s.machine.Status = statusCopy: the machine that the server answered with,
\* with the status that was copied before the patch put back
withStatus(answer, statusCopy) ==
    [answer EXCEPT !.addresses = statusCopy.addresses,
                   !.providerStatusRaw = statusCopy.providerStatusRaw,
                   !.lastUpdated = statusCopy.lastUpdated]

\* PatchMachine: coreClient.Patch overwrites s.machine with the answer of the
\* server, which holds the stored status; the copy of the status taken
\* before is put back and sent with the patch of the status
PatchMachine(s, stored, env) ==
    IF Fails(env, "Patch", "machine")
    THEN [stored |-> stored, err |-> Errorf(<<"failed to patch machine">>),
          patches |-> <<"machine">>]
    ELSE IF Fails(env, "Patch", "status")
    THEN [stored |-> patchedMain(stored, s.machine), err |-> Errorf(<<"failed to patch machine status">>),
          patches |-> <<"machine", "status">>]
    ELSE [stored |-> patchedStatus(patchedMain(stored, s.machine),
                                   withStatus(patchedMain(stored, s.machine), StatusOf(s.machine))),
          err |-> Nil, patches |-> <<"machine", "status">>]

Close(s, stored, env, now) ==
    LET s1 == setMachineSpec(setMachineStatus(s, now))
        p == PatchMachine(s1, stored, env)
    IN [stored |-> p.stored, err |-> p.err, patches |-> p.patches,
        wrote |-> s1.machine.lastUpdated = now, s |-> s1,
        versionChanged |-> p.stored # stored]

NoClose ==
    [stored |-> <<>>, err |-> Nil, patches |-> <<>>, wrote |-> FALSE, s |-> <<>>,
     versionChanged |-> FALSE]

(***************************************************************************)
(* Actuator: what a call hands back and the events it emits                *)
(***************************************************************************)
Event(type, reason, message) == [type |-> type, reason |-> reason, message |-> message]

\* handleMachineError handing the error back without an event
handleMachineErrorSilent(err, eventAction) == [out |-> err, events |-> <<>>]

\* handleMachineError: the warning event, and the error handed back
handleMachineError(err, eventAction) ==
    [out |-> err,
     events |-> IF eventAction # noEventAction
                THEN <<Event("Warning", <<"Failed", eventAction>>, err.msg)>>
                ELSE <<>>]

\* Actuator.Create once the scope is built: r is what Reconciler.create
\* returned, cl what Close did
CreateOutcome(r, cl) ==
    IF r.ret # Nil
    THEN handleMachineError(Wrapw(reconcilerFailFmt(createEventAction), r.ret), createEventAction)
    ELSE [out |-> cl.err,
          events |-> <<Event("Normal", <<createEventAction>>, <<"Created Machine", MachineName>>)>>]

\* Actuator.Update emitting its event whenever update and Close succeeded
UpdateOutcomeAlwaysEmits(r, cl) ==
    IF r.ret # Nil
    THEN handleMachineError(Wrapw(reconcilerFailFmt(updateEventAction), r.ret), updateEventAction)
    ELSE IF cl.err # Nil
    THEN [out |-> cl.err, events |-> <<>>]
    ELSE [out |-> Nil,
          events |-> <<Event("Normal", <<updateEventAction>>, <<"Updated Machine", MachineName>>)>>]

\* Actuator.Update once the scope is built
UpdateOutcome(r, cl) ==
    IF r.ret # Nil
    THEN handleMachineError(Wrapw(reconcilerFailFmt(updateEventAction), r.ret), updateEventAction)
    ELSE IF cl.err # Nil
    THEN [out |-> cl.err, events |-> <<>>]
    ELSE [out |-> Nil,
          events |-> IF cl.versionChanged
                     THEN <<Event("Normal", <<updateEventAction>>, <<"Updated Machine", MachineName>>)>>
                     ELSE <<>>]

\* Actuator.Delete once the scope is built
DeleteOutcome(r) ==
    IF r.ret # Nil
    THEN handleMachineError(Wrapw(reconcilerFailFmt(deleteEventAction), r.ret), deleteEventAction)
    ELSE [out |-> Nil,
          events |-> <<Event("Normal", <<deleteEventAction>>, <<"Deleted machine", MachineName>>)>>]

\* Actuator.Exists taking an invalid configuration of a machine that is
\* being deleted for no error, with or without a provider ID
ExistsOutcomeIgnoringProviderID(m, ex) ==
    IF isInvalidMachineConfigurationError(ex.err) /\ m.deleting
    THEN [out |-> Nil, events |-> <<>>]
    ELSE [out |-> ex.err, events |-> <<>>]

\* Actuator.Exists once the scope is built: an invalid configuration of a
\* machine that is being deleted and has no provider ID is no error
ExistsOutcome(m, ex) ==
    IF isInvalidMachineConfigurationError(ex.err) /\ m.deleting /\ m.providerID = NoProviderID
    THEN [out |-> Nil, events |-> <<>>]
    ELSE [out |-> ex.err, events |-> <<>>]

\* a call that stops at the construction of the scope
ScopeOutcome(err, eventAction) ==
    IF eventAction # noEventAction
    THEN handleMachineError(Wrapw(scopeFailFmt, err), eventAction)
    ELSE [out |-> Wrapw(scopeFailFmt, err), events |-> <<>>]

(***************************************************************************)
(* Inputs of a reconciliation: what the environment answers                *)
(***************************************************************************)
Pools == {"p1", "p2"}

FailableCalls ==
    {Call("TargetPoolsGet", p) : p \in Pools}
      \cup {Call("TargetPoolsAddInstance", p) : p \in Pools}
      \cup {Call("TargetPoolsRemoveInstance", p) : p \in Pools}
      \cup {Call(n, "") : n \in {"InstanceGroupGet", "InstanceGroupInsert",
                                 "AddInstanceGroupToBackendService", "InstanceGroupsListInstances",
                                 "InstanceGroupsAddInstances", "InstanceGroupsRemoveInstances",
                                 "InstancesDelete", "RegionGet", "AcceleratorTypeGet"}}
      \cup {Call("BackendServiceGet", a) : a \in {"check", "update"}}
      \cup {Call("Patch", a) : a \in {"machine", "status"}}

LookupErrors ==
    {ErrProjectNotFound, ErrInvalidZone, ErrInstanceNotFound, ErrZoneShaped404,
     ErrOtherProjectNotFound, ErrBadRequest, ErrZoneRequired, ErrForbidden, ErrInternal,
     ErrTransport}

InsertErrors == {ErrBadRequest, ErrConflict, ErrInternal, ErrNotModified, ErrTransport}

Quota(metric, usage, limit) == [metric |-> metric, usage |-> usage, limit |-> limit]

QuotaLists ==
    {<<>>,
     <<Quota(<<"NVIDIA_T4_GPUS">>, 1, 1)>>,
     <<Quota(<<"CPUS">>, 0, 8)>>,
     <<Quota(<<"CPUS">>, 0, 8), Quota(<<"NVIDIA_A100_GPUS">>, 0, 1)>>,
     <<Quota(<<"CPUS">>, 0, 8), Quota(<<"NVIDIA_A100_GPUS">>, 1, 1)>>,
     <<Quota(<<"NVIDIA_T4_GPUS">>, 0, 1), Quota(<<"PREEMPTIBLE", "NVIDIA_T4_GPUS">>, 1, 1)>>,
     <<Quota(<<"NVIDIA_T4_GPUS">>, 1, 1), Quota(<<"PREEMPTIBLE", "NVIDIA_T4_GPUS">>, 0, 1)>>}

BaseEnv ==
    [scope |-> "ok", fail |-> {}, getErr |-> NoErr, insertErr |-> NoErr,
     insertStatus |-> "PROVISIONING", labelsErr |-> FALSE,
     tagsEnabled |-> TRUE, tagsErr |-> NoErr, diskLabelsErr |-> FALSE, secret |-> "ok",
     quotas |-> <<Quota(<<"CPUS">>, 0, 8), Quota(<<"NVIDIA_T4_GPUS">>, 0, 1)>>]

FailEnvs(names) == {[BaseEnv EXCEPT !.fail = {k}] : k \in {f \in FailableCalls : f[1] \in names}}

LookupEnvs == {[BaseEnv EXCEPT !.getErr = e] : e \in LookupErrors}

\* the steps of newMachineScope that can fail
ScopeFaults ==
    {"providerSpec", "providerStatus", "credentials", "projectID", "computeEndpoint",
     "tagsEndpoint", "computeService", "tagService"}

ScopeEnvs == {[BaseEnv EXCEPT !.scope = f] : f \in ScopeFaults}

PoolCalls == {"TargetPoolsGet", "TargetPoolsAddInstance", "TargetPoolsRemoveInstance"}

GroupCalls ==
    {"InstanceGroupGet", "InstanceGroupInsert", "BackendServiceGet",
     "AddInstanceGroupToBackendService", "InstanceGroupsListInstances",
     "InstanceGroupsAddInstances", "InstanceGroupsRemoveInstances"}

\* the inserted instance is running by the time create looks at it, and
\* Close works or one of its patches fails
QuickEnvs ==
    {[BaseEnv EXCEPT !.insertStatus = "RUNNING", !.fail = f] :
        f \in {{}, {Call("Patch", "machine")}, {Call("Patch", "status")}}}

\* the answers of one reconciliation: everything works, or one thing deviates
CreateEnvs ==
    {BaseEnv}
      \cup FailEnvs({"RegionGet", "AcceleratorTypeGet", "Patch"})
      \cup LookupEnvs
      \cup {[BaseEnv EXCEPT !.insertErr = e] : e \in InsertErrors}
      \cup {[BaseEnv EXCEPT !.quotas = q] : q \in QuotaLists}
      \cup {[BaseEnv EXCEPT !.secret = x] : x \in {"notFound", "getError", "noKey"}}
      \cup {[BaseEnv EXCEPT !.labelsErr = TRUE],
            [BaseEnv EXCEPT !.tagsErr = ErrForbidden, !.tagsEnabled = FALSE],
            [BaseEnv EXCEPT !.diskLabelsErr = TRUE]}
      \cup {[BaseEnv EXCEPT !.tagsErr = e] : e \in TagErrors}
      \cup ScopeEnvs
      \cup QuickEnvs

UpdateEnvs ==
    {BaseEnv} \cup FailEnvs(PoolCalls \cup GroupCalls \cup {"Patch"}) \cup LookupEnvs \cup ScopeEnvs

DeleteEnvs ==
    {BaseEnv} \cup FailEnvs(PoolCalls \cup GroupCalls \cup {"InstancesDelete"}) \cup LookupEnvs
      \cup ScopeEnvs

ExistsEnvs == {BaseEnv} \cup LookupEnvs \cup ScopeEnvs

(***************************************************************************)
(* Machines and clouds the model starts from                               *)
(***************************************************************************)
Nic(publicIP) ==
    [network |-> <<ClusterID, "network">>, subnetwork |-> <<ClusterID, masterMachineRole, "subnet">>,
     publicIP |-> publicIP]

BaseSpec ==
    [targetPools |-> <<"p1", "p2">>, zone |-> "z", region |-> "r",
     machineType |-> <<"n1", "standard-1">>, preemptible |-> FALSE, restartPolicy |-> "",
     gpus |-> <<>>, networkInterfaces |-> <<Nic(TRUE)>>, userDataSecret |-> "worker-user-data"]

Gpu(type, count) == [type |-> type, count |-> count]

Specs ==
    {BaseSpec,
     [BaseSpec EXCEPT !.targetPools = <<>>, !.networkInterfaces = <<Nic(FALSE)>>],
     [BaseSpec EXCEPT !.targetPools = <<"p1", "">>],
     [BaseSpec EXCEPT !.preemptible = TRUE, !.restartPolicy = "Always"],
     [BaseSpec EXCEPT !.preemptible = TRUE, !.restartPolicy = "Never", !.userDataSecret = ""],
     [BaseSpec EXCEPT !.restartPolicy = "Sometimes"],
     [BaseSpec EXCEPT !.gpus = <<Gpu("nvidia-tesla-t4", 1)>>],
     [BaseSpec EXCEPT !.gpus = <<Gpu("nvidia-tesla-t4", 1)>>, !.preemptible = TRUE],
     [BaseSpec EXCEPT !.gpus = <<Gpu("nvidia-tesla-t4", 1), Gpu("nvidia-tesla-p4", 1)>>],
     [BaseSpec EXCEPT !.gpus = <<Gpu("nvidia-h100", 1)>>],
     [BaseSpec EXCEPT !.machineType = <<"a2", "highgpu-1g">>],
     [BaseSpec EXCEPT !.machineType = <<"a2", "highgpu-1g">>, !.gpus = <<Gpu("nvidia-tesla-a100", 1)>>],
     [BaseSpec EXCEPT !.machineType = <<"e2", "medium">>, !.gpus = <<Gpu("nvidia-tesla-t4", 1)>>],
     [BaseSpec EXCEPT !.machineType = <<"n1", "retired-1">>, !.gpus = <<Gpu("nvidia-tesla-t4", 1)>>]}

Labels(cluster, role) ==
    [k \in {MachineClusterIDLabel, openshiftMachineRoleLabel} |->
        IF k = MachineClusterIDLabel THEN cluster ELSE role]

Machine(spec, labels) ==
    [labels |-> labels, annotations |-> EmptyMap, specLabels |-> EmptyMap,
     providerID |-> NoProviderID, providerSpec |-> spec, addresses |-> <<>>,
     providerStatusRaw |-> NoRaw, lastUpdated |-> 0, deleting |-> FALSE]

Machines ==
    {Machine(spec, Labels(ClusterID, "worker")) : spec \in Specs}
      \cup {Machine(BaseSpec, Labels(ClusterID, masterMachineRole)),
            Machine(BaseSpec, Labels("", "worker"))}

NoGroup == [present |-> FALSE, instances |-> {}, network |-> <<>>, subnetwork |-> <<>>]

Instances ==
    {NoInstance,
     [present |-> TRUE, status |-> "RUNNING", name |-> MachineName,
      nics |-> networkInterfaces(<<Nic(TRUE)>>)],
     [present |-> TRUE, status |-> "STAGING", name |-> MachineName, nics |-> <<>>]}

Clouds ==
    {[instance |-> i, pools |-> [p \in Pools |-> IF p = "p1" THEN <<OtherInstanceLink>> ELSE <<>>],
      group |-> g, backends |-> <<OtherGroupLink>>] :
        i \in Instances,
        g \in {NoGroup, [NoGroup EXCEPT !.present = TRUE, !.instances = {OtherInstanceLink}]}}

NoLast ==
    [op |-> "none", env |-> BaseEnv, ret |-> Nil, calls |-> <<>>, pre |-> <<>>, post |-> <<>>, cloud |-> <<>>,
     ex |-> NoEx, rmcs |-> NoRmcs, ptp |-> NoPtp, reg |-> NoReg, insert |-> NoErr,
     close |-> NoClose, call |-> noEventAction, out |-> Nil, events |-> <<>>]

\* the latest call was no Update that succeeded, or the cloud or the machine
\* changed since
NoPrev == [call |-> noEventAction, events |-> 0]

\* no reconciler runs beside the call that the actions below model
NoRecon == <<>>

\* no label merge is looked at on its own
NoMerge == <<>>

\* no instance descriptor is looked at on its own
NoBuilt == <<>>

\* no duplicate-tag filter runs
NoFilter == <<>>

\* the three machines with the plain spec start against every cloud, the
\* machines with the other specs against the empty cloud
Init ==
    /\ machine \in Machines
    /\ cloud \in Clouds
    /\ machine.providerSpec # BaseSpec => ~cloud.instance.present /\ ~cloud.group.present
    /\ clock = 0
    /\ last = NoLast
    /\ prev = NoPrev
    /\ recon = NoRecon
    /\ merge = NoMerge
    /\ built = NoBuilt
    /\ filter = NoFilter

(***************************************************************************)
(* Actuator calls                                                          *)
(***************************************************************************)
\* env deviates only in answers that the call asked for: an answer nobody
\* asks for is no input of the call
Asked(env, calls, patches) ==
    /\ \A f \in env.fail :
          \/ \E i \in 1..Len(calls) : calls[i] = f
          \/ \E i \in 1..Len(patches) : f = Call("Patch", patches[i])
    /\ env.getErr # NoErr => Issued(calls, "InstancesGet")
    /\ env.insertErr # NoErr => Issued(calls, "InstancesInsert")
    /\ env.insertStatus # "PROVISIONING" =>
          \E i \in 1..Len(calls) :
              /\ calls[i][1] = "InstancesInsert"
              /\ \E j \in (i + 1)..Len(calls) : calls[j][1] = "InstancesGet"

Record(op, env, s0, r, cl, call, o) ==
    [op |-> op, env |-> env, ret |-> r.ret, calls |-> r.calls, pre |-> s0, post |-> r.s, cloud |-> cloud,
     ex |-> r.ex, rmcs |-> r.rmcs, ptp |-> r.ptp, reg |-> r.reg, insert |-> r.insert,
     close |-> cl, call |-> call, out |-> o.out, events |-> o.events]

\* the record of a call that stopped at the construction of the scope
ScopeFailed(env, call, o) ==
    [NoLast EXCEPT !.op = "scope", !.env = env, !.cloud = cloud, !.call = call,
                   !.out = o.out, !.events = o.events]

\* Actuator.Create: scope, Reconciler.create, Close whatever create returned.
\* The machine controller calls Create and Update for a machine that is not
\* being deleted, and Delete for one that is.
Create ==
    /\ UNCHANGED aside
    /\ last = NoLast
    /\ ~machine.deleting
    /\ \E env \in CreateEnvs :
        \/ /\ newMachineScopeErr(machine, env) # Nil
           /\ last' = ScopeFailed(env, "Create",
                                   ScopeOutcome(newMachineScopeErr(machine, env), createEventAction))
           /\ UNCHANGED <<machine, cloud, clock, prev>>
        \/ /\ newMachineScopeErr(machine, env) = Nil
           /\ \E r \in {create(newMachineScope(machine), cloud, env)} :
              \E cl \in {Close(r.s, machine, env, clock + 1)} :
               /\ Asked(env, r.calls, cl.patches)
               /\ cl.wrote => clock < MaxClock
               /\ machine' = cl.stored
               /\ cloud' = r.c
               /\ clock' = IF cl.wrote THEN clock + 1 ELSE clock
               /\ last' = Record("create", env, newMachineScope(machine), r,
                                  [cl EXCEPT !.stored = <<>>], "Create", CreateOutcome(r, cl))
               /\ UNCHANGED prev

\* Actuator.Update: scope, Reconciler.update, Close whatever update returned
Update ==
    /\ UNCHANGED aside
    /\ last = NoLast
    /\ ~machine.deleting
    /\ \E env \in UpdateEnvs :
        \/ /\ newMachineScopeErr(machine, env) # Nil
           /\ last' = ScopeFailed(env, "Update",
                                   ScopeOutcome(newMachineScopeErr(machine, env), updateEventAction))
           /\ UNCHANGED <<machine, cloud, clock, prev>>
        \/ /\ newMachineScopeErr(machine, env) = Nil
           /\ \E r \in {update(newMachineScope(machine), cloud, env)} :
              \E cl \in {Close(r.s, machine, env, clock + 1)} :
               /\ Asked(env, r.calls, cl.patches)
               /\ cl.wrote => clock < MaxClock
               /\ machine' = cl.stored
               /\ cloud' = r.c
               /\ clock' = IF cl.wrote THEN clock + 1 ELSE clock
               /\ last' = Record("update", env, newMachineScope(machine), r,
                                  [cl EXCEPT !.stored = <<>>], "Update", UpdateOutcome(r, cl))
               /\ UNCHANGED prev

\* Actuator.Delete closing the scope after Reconciler.delete
DeleteClosing ==
    /\ UNCHANGED aside
    /\ last = NoLast
    /\ machine.deleting
    /\ \E env \in DeleteEnvs :
        \/ /\ newMachineScopeErr(machine, env) # Nil
           /\ last' = ScopeFailed(env, "Delete",
                                   ScopeOutcome(newMachineScopeErr(machine, env), deleteEventAction))
           /\ UNCHANGED <<machine, cloud, clock, prev>>
        \/ /\ newMachineScopeErr(machine, env) = Nil
           /\ \E r \in {delete(newMachineScope(machine), cloud, env)} :
              \E cl \in {Close(r.s, machine, env, clock + 1)} :
               /\ Asked(env, r.calls, <<>>)
               /\ cloud' = r.c
               /\ machine' = cl.stored
               /\ last' = Record("delete", env, newMachineScope(machine), r,
                                  [cl EXCEPT !.stored = <<>>], "Delete", DeleteOutcome(r))
               /\ UNCHANGED <<clock, prev>>

\* Actuator.Delete: scope and Reconciler.delete; the scope is not closed
Delete ==
    /\ UNCHANGED aside
    /\ last = NoLast
    /\ machine.deleting
    /\ \E env \in DeleteEnvs :
        \/ /\ newMachineScopeErr(machine, env) # Nil
           /\ last' = ScopeFailed(env, "Delete",
                                   ScopeOutcome(newMachineScopeErr(machine, env), deleteEventAction))
           /\ UNCHANGED <<machine, cloud, clock, prev>>
        \/ /\ newMachineScopeErr(machine, env) = Nil
           /\ \E r \in {delete(newMachineScope(machine), cloud, env)} :
               /\ Asked(env, r.calls, <<>>)
               /\ cloud' = r.c
               /\ last' = Record("delete", env, newMachineScope(machine), r, NoClose,
                                  "Delete", DeleteOutcome(r))
               /\ UNCHANGED <<machine, clock, prev>>

\* Actuator.Exists: scope and Reconciler.exists; the scope is not closed
Exists ==
    /\ UNCHANGED aside
    /\ last = NoLast
    /\ \E env \in ExistsEnvs :
        \/ /\ newMachineScopeErr(machine, env) # Nil
           /\ last' = ScopeFailed(env, "Exists",
                                   ScopeOutcome(newMachineScopeErr(machine, env), noEventAction))
           /\ UNCHANGED <<machine, cloud, clock, prev>>
        \/ /\ newMachineScopeErr(machine, env) = Nil
           /\ \E ex \in {exists(newMachineScope(machine), cloud, env)} :
               /\ Asked(env, ex.calls, <<>>)
               /\ last' = Record("exists", env, newMachineScope(machine),
                                  Result(newMachineScope(machine), cloud, ex.err, ex.calls, ex,
                                         NoRmcs, NoPtp, NoReg),
                                  NoClose, "Exists", ExistsOutcome(machine, ex))
               /\ UNCHANGED <<machine, cloud, clock, prev>>

\* the cloud finishes provisioning an instance
InstanceStarts ==
    /\ UNCHANGED aside
    /\ last = NoLast
    /\ cloud.instance.present
    /\ cloud.instance.status \in {"PROVISIONING", "STAGING"}
    /\ cloud' = [cloud EXCEPT !.instance.status = "RUNNING"]
    /\ prev' = NoPrev
    /\ UNCHANGED <<machine, clock, last>>

\* the running instance loses its external address
AccessConfigRemoved ==
    /\ UNCHANGED aside
    /\ last = NoLast
    /\ cloud.instance.present
    /\ cloud.instance.status = "RUNNING"
    /\ cloud.instance.nics # <<>>
    /\ cloud.instance.nics[1].accessConfigs # <<>>
    /\ cloud' = [cloud EXCEPT !.instance.nics[1].accessConfigs = <<>>]
    /\ prev' = NoPrev
    /\ UNCHANGED <<machine, clock, last>>

\* the cloud finishes a deletion that InstancesDelete started
InstanceRemoved ==
    /\ UNCHANGED aside
    /\ last = NoLast
    /\ cloud.instance.present
    /\ cloud.instance.status = "STOPPING"
    /\ cloud' = [cloud EXCEPT !.instance = NoInstance]
    /\ prev' = NoPrev
    /\ UNCHANGED <<machine, clock, last>>

\* the machine is deleted: from now on the machine controller calls Delete
MarkDeleting ==
    /\ UNCHANGED aside
    /\ last = NoLast
    /\ ~machine.deleting
    /\ machine' = [machine EXCEPT !.deleting = TRUE]
    /\ prev' = NoPrev
    /\ UNCHANGED <<cloud, clock, last>>

\* the machine controller takes the outcome of the call and goes on to its
\* next reconciliation.  prev keeps the number of events of an Update that
\* succeeded; Exists emits no event and changes nothing, so the call before
\* it stays the previous one.
Reconciled ==
    /\ UNCHANGED aside
    /\ last # NoLast
    /\ last' = NoLast
    /\ prev' = IF last.call = "Exists" THEN prev
               ELSE IF last.call = "Update" /\ last.out = Nil
               THEN [call |-> last.call, events |-> Len(last.events)]
               ELSE NoPrev
    /\ UNCHANGED <<machine, cloud, clock>>

Next ==
    \/ Create \/ Update \/ Delete \/ Exists
    \/ Reconciled \/ InstanceStarts \/ AccessConfigRemoved \/ InstanceRemoved \/ MarkDeleting

Spec == Init /\ [][Next]_vars

(***************************************************************************)
(* Properties                                                              *)
(***************************************************************************)
IsError(ret) == ret.kind \in {"Error", "IC"}

Requeue20 == [kind |-> "Requeue", msg |-> <<>>, after |-> 20]

\* C1: when delete() finds that the existence check yields an
\* InvalidConfiguration error and the machine carries a provider ID, it
\* returns an error and issues no InstancesDelete; with the same result of the
\* existence check and no provider ID it returns success.
DeleteRefusedOnInvalidConfiguration ==
    (last.op = "delete" /\ last.ex.called /\ last.ex.err.kind = "IC") =>
        IF last.pre.machine.providerID # NoProviderID
        THEN /\ IsError(last.ret)
             /\ ~Issued(last.calls, "InstancesDelete")
             /\ cloud.instance = last.cloud.instance
        ELSE last.ret = Nil /\ ~Issued(last.calls, "InstancesDelete")

DeleteRefusedWitness ==
    /\ last.op = "delete"
    /\ last.ex.called
    /\ last.ex.err.kind = "IC"
    /\ last.pre.machine.providerID # NoProviderID
    /\ last.cloud.instance.present
    /\ IsError(last.ret)

\* what the message of a failed lookup says, whatever its HTTP code
SaysProjectNotFound(err) ==
    \E i \in 1..Len(err.errors) :
        /\ \E j \in 1..Len(err.errors[i].message) : err.errors[i].message[j] = "'projects/P'"
        /\ err.errors[i].reason = "notFound"

SaysInvalidZone(err) ==
    \E i \in 1..Len(err.errors) :
        /\ \E j \in 1..Len(err.errors[i].message) : err.errors[i].message[j] = "'zone'"
        /\ err.errors[i].reason = "invalid"

Is404(err) == err.google /\ err.code = 404

Is400(err) == err.google /\ err.code = 400

DeleteRequeuesAfterInstancesDelete ==
    last.op = "delete" =>
        /\ last.ret = Nil =>
              /\ ~Issued(last.calls, "InstancesDelete")
              /\ last.ex.called
              /\ ~last.ex.found
        /\ (Issued(last.calls, "InstancesDelete") /\ ~Fails(last.env, "InstancesDelete", "")) =>
              /\ last.ret = Requeue20
              /\ cloud.instance.status = "STOPPING"

DeleteRequeuesWitness ==
    /\ last.op = "delete"
    /\ Issued(last.calls, "InstancesDelete")
    /\ ~Fails(last.env, "InstancesDelete", "")
    /\ last.ret = Requeue20

HasCondition(conditions, cond) == \E i \in 1..Len(conditions) : conditions[i] = cond

\* C4: when InstancesInsert fails in create(), the provider status that
\* create() leaves holds a MachineCreated=False condition with the message of
\* the failure, and the error returned is an InvalidConfiguration error
\* exactly when the failure is a cloud API error with an HTTP 4xx code; it is
\* a plain error otherwise.
CreateInsertFailureRecorded ==
    (last.op = "create" /\ Issued(last.calls, "InstancesInsert") /\ last.insert # NoErr) =>
        /\ HasCondition(last.post.providerStatus.conditions,
                        [type |-> MachineCreated, status |-> "False",
                         reason |-> "MachineCreationFailed", message |-> last.insert.text])
        /\ \A i \in 1..Len(last.post.providerStatus.conditions) :
              last.post.providerStatus.conditions[i].type = MachineCreated
                 => last.post.providerStatus.conditions[i].status = "False"
        /\ IF last.insert.google /\ last.insert.code \in 400..499
           THEN last.ret.kind = "IC"
           ELSE last.ret.kind = "Error"

CreateInsertFailureWitness ==
    /\ last.op = "create"
    /\ last.insert = ErrBadRequest
    /\ last.ret.kind = "IC"
    /\ HasCondition(last.post.providerStatus.conditions, failedCondition(ErrBadRequest.text))

\* C5: a create() that fails at a step before the InstancesInsert call
\* returns that error with no InstancesInsert issued, the cloud as it was,
\* and the provider status, the addresses and the provider ID of the machine
\* unchanged.
CreateFailsBeforeInsertUnchanged ==
    (last.op = "create" /\ preInsertFailure(last.pre, last.env).ret # Nil) =>
        /\ IsError(last.ret)
        /\ ~Issued(last.calls, "InstancesInsert")
        /\ cloud = last.cloud
        /\ last.post.providerStatus = last.pre.providerStatus
        /\ last.post.machine.addresses = last.pre.machine.addresses
        /\ last.post.machine.providerID = last.pre.machine.providerID
        /\ last.close.err = Nil =>
              /\ machine.providerStatusRaw = last.pre.machine.providerStatusRaw
              /\ machine.addresses = last.pre.machine.addresses
              /\ machine.providerID = last.pre.machine.providerID

CreateFailsBeforeInsertWitness ==
    /\ last.op = "create"
    /\ last.env.secret = "noKey"
    /\ last.ret.kind = "Error"
    /\ last.ret.msg[1] = "error getting custom user data"
    /\ ~Issued(last.calls, "InstancesInsert")

\* the machine's own link in the cloud's target pool p, before the call
InPoolBefore(p) ==
    \E i \in 1..Len(last.cloud.pools[p]) :
        last.cloud.pools[p][i] = <<"instances", ProjectID, last.pre.providerSpec.zone, MachineName>>

NamedPools == {last.pre.providerSpec.targetPools[i] : i \in 1..Len(last.pre.providerSpec.targetPools)}

Mutations(p) ==
    Count(last.ptp.calls, "TargetPoolsAddInstance", p)
      + Count(last.ptp.calls, "TargetPoolsRemoveInstance", p)

\* C6: processTargetPools(desired, action) makes at most one mutating call
\* for a named pool, the call is the action handed in, and it makes it only
\* for a pool whose membership differs from desired.  Every pool it looks up
\* with a different membership gets exactly one call, and a run that returns
\* success has looked up every named pool: one call for each pool that
\* differed, none for the others.
ProcessTargetPoolsActsOnDifference ==
    last.ptp.called =>
        /\ last.ptp.desired = (last.op = "update")
        /\ \A p \in NamedPools :
              /\ Mutations(p) =< 1
              /\ Mutations(p) = Count(last.ptp.calls,
                                      IF last.ptp.desired THEN "TargetPoolsAddInstance"
                                      ELSE "TargetPoolsRemoveInstance", p)
              /\ Mutations(p) = 1 =>
                    /\ p \in DOMAIN last.cloud.pools
                    /\ InPoolBefore(p) # last.ptp.desired
              /\ ( /\ IssuedFor(last.ptp.calls, "TargetPoolsGet", p)
                   /\ ~Fails(last.env, "TargetPoolsGet", p)
                   /\ p \in DOMAIN last.cloud.pools
                   /\ InPoolBefore(p) # last.ptp.desired ) => Mutations(p) = 1
              /\ last.ptp.ret = Nil =>
                    /\ p \in DOMAIN last.cloud.pools
                    /\ IssuedFor(last.ptp.calls, "TargetPoolsGet", p)
                    /\ Mutations(p) = (IF InPoolBefore(p) # last.ptp.desired THEN 1 ELSE 0)
        /\ \A i \in 1..Len(last.ptp.calls) : last.ptp.calls[i][2] \in NamedPools

ProcessTargetPoolsWitness ==
    /\ last.op = "delete"
    /\ last.ptp.called
    /\ last.ptp.ret = Nil
    /\ InPoolBefore("p1")
    /\ ~InPoolBefore("p2")
    /\ Mutations("p1") = 1
    /\ Mutations("p2") = 0

\* the step of update() that a cloud call belongs to
Step(call) ==
    IF call[1] \in PoolCalls THEN 2
    ELSE IF call[1] \in GroupCalls THEN 3
    ELSE 4

SpecInvalid ==
    \/ \E i \in 1..Len(last.pre.providerSpec.targetPools) : last.pre.providerSpec.targetPools[i] = ""
    \/ last.pre.machine.labels[MachineClusterIDLabel] = ""

IsMaster == last.pre.machine.labels[openshiftMachineRoleLabel] = masterMachineRole

\* C7: update() validates the spec, synchronises the target pools with
\* desired membership, registers the instance in the control-plane instance
\* group if and only if the machine carries the master role label, and then
\* reconciles with the cloud state, in this order; a step that fails ends
\* update() with an error and no call of a later step is made.
UpdateStepsInOrder ==
    last.op = "update" =>
        /\ \A i, j \in 1..Len(last.calls) : i < j => Step(last.calls[i]) =< Step(last.calls[j])
        /\ SpecInvalid => last.ret.kind = "IC" /\ last.calls = <<>> /\ ~last.ptp.called
        /\ ~SpecInvalid => last.ptp.called /\ last.ptp.desired
        /\ last.reg.called => IsMaster
        /\ (\E i \in 1..Len(last.calls) : Step(last.calls[i]) = 3) => IsMaster
        /\ (last.ptp.called /\ last.ptp.ret # Nil) =>
              /\ last.ret = last.ptp.ret
              /\ ~last.reg.called
              /\ ~last.rmcs.called
              /\ \A i \in 1..Len(last.calls) : Step(last.calls[i]) = 2
        /\ (last.ptp.called /\ last.ptp.ret = Nil) => (last.reg.called <=> IsMaster)
        /\ (last.reg.called /\ last.reg.ret # Nil) =>
              /\ IsError(last.ret)
              /\ ~last.rmcs.called
              /\ \A i \in 1..Len(last.calls) : Step(last.calls[i]) \in {2, 3}
        /\ (last.ptp.called /\ last.ptp.ret = Nil /\ last.reg.ret = Nil) =>
              /\ last.rmcs.called
              /\ last.rmcs.cond = NoCondition
              /\ last.ret = last.rmcs.ret
              /\ last.calls[Len(last.calls)] = <<"InstancesGet", "">>
        /\ \A n \in PoolCalls \cup GroupCalls, a \in {f[2] : f \in FailableCalls} :
              (Fails(last.env, n, a) /\ IssuedFor(last.calls, n, a)) =>
                  /\ IsError(last.ret)
                  /\ last.calls[Len(last.calls)] = <<n, a>>

UpdateStepsWitness ==
    /\ last.op = "update"
    /\ IsMaster
    /\ Fails(last.env, "InstanceGroupsListInstances", "")
    /\ IssuedFor(last.calls, "TargetPoolsAddInstance", "p1")
    /\ IssuedFor(last.calls, "InstanceGroupInsert", "")
    /\ IsError(last.ret)
    /\ ~last.rmcs.called

ProviderIDOf(zone) == <<"gce", ProjectID, zone, MachineName>>

ReconcileWithFailedConditionOnlyMerges ==
    (last.rmcs.called /\ last.rmcs.cond # NoCondition) =>
        /\ last.rmcs.ret = Nil
        /\ last.rmcs.calls = <<>>
        /\ ~Issued(last.calls, "InstancesGet")
        /\ HasCondition(last.rmcs.s.providerStatus.conditions, last.rmcs.cond)
        /\ Cardinality({i \in 1..Len(last.rmcs.s.providerStatus.conditions) :
                          last.rmcs.s.providerStatus.conditions[i].type = last.rmcs.cond.type}) = 1
        /\ last.rmcs.s.machine.providerID = last.rmcs.pre.machine.providerID
        /\ last.rmcs.s.machine.addresses = last.rmcs.pre.machine.addresses
        /\ last.rmcs.s.providerStatus.instanceState = last.rmcs.pre.providerStatus.instanceState
        /\ last.rmcs.s.providerStatus.instanceID = last.rmcs.pre.providerStatus.instanceID
        /\ last.rmcs.s.machine.labels = last.rmcs.pre.machine.labels
        /\ last.rmcs.s.machine.annotations = last.rmcs.pre.machine.annotations
        /\ [last.rmcs.s EXCEPT !.providerStatus.conditions = <<>>]
              = [last.rmcs.pre EXCEPT !.providerStatus.conditions = <<>>]

ReconcileWithFailedConditionWitness ==
    /\ last.op = "create"
    /\ last.rmcs.called
    /\ last.rmcs.cond # NoCondition
    /\ last.rmcs.pre.machine.providerID # NoProviderID
    /\ last.rmcs.pre.providerStatus.instanceState = "RUNNING"
    /\ last.cloud.instance.present
    /\ last.rmcs.s.providerStatus.instanceState = "RUNNING"

\* the machine's own link in the list of running instances of the
\* control-plane instance group, as the cloud answers it during the call
InRunningList ==
    /\ <<"instances", ProjectID, last.pre.providerSpec.zone, MachineName>> \in last.cloud.group.instances
    /\ last.cloud.instance.present
    /\ last.cloud.instance.status = "RUNNING"

\* C10: the registration in the control-plane instance group issues
\* InstanceGroupsAddInstances only when the list of running instances lacks
\* the instance and the provider status the machine was read with records
\* the instance state RUNNING; once it has that list, it issues exactly one
\* add call in that case, and in every other case no add call, and returns
\* success.
RegisterAddsOnlyRunningAbsent ==
    last.reg.called =>
        /\ Count(last.calls, "InstanceGroupsAddInstances", "") =< 1
        /\ Issued(last.calls, "InstanceGroupsAddInstances") =>
              /\ IssuedFor(last.calls, "InstanceGroupsListInstances", "")
              /\ ~Fails(last.env, "InstanceGroupsListInstances", "")
              /\ ~InRunningList
              /\ last.pre.machine.providerStatusRaw.present
              /\ last.pre.machine.providerStatusRaw.value.instanceState = "RUNNING"
        /\ (IssuedFor(last.calls, "InstanceGroupsListInstances", "")
              /\ ~Fails(last.env, "InstanceGroupsListInstances", "")) =>
              IF ~InRunningList /\ last.pre.providerStatus.instanceState = "RUNNING"
              THEN /\ Count(last.calls, "InstanceGroupsAddInstances", "") = 1
                   /\ last.reg.ret = Nil <=> ~Fails(last.env, "InstanceGroupsAddInstances", "")
              ELSE /\ ~Issued(last.calls, "InstanceGroupsAddInstances")
                   /\ last.reg.ret = Nil
                   /\ cloud.group.instances = last.cloud.group.instances

RegisterAddsWitness ==
    /\ last.op = "update"
    /\ last.reg.called
    /\ Issued(last.calls, "InstanceGroupsAddInstances")
    /\ last.reg.ret = Nil
    /\ last.pre.providerStatus.instanceState = "RUNNING"
    /\ <<"instances", ProjectID, "z", MachineName>> \in cloud.group.instances
    /\ <<"instances", ProjectID, "z", MachineName>> \notin last.cloud.group.instances

RegisterSkipsWitness ==
    /\ last.op = "update"
    /\ last.reg.called
    /\ last.reg.ret = Nil
    /\ last.cloud.instance.present
    /\ last.cloud.instance.status = "RUNNING"
    /\ last.pre.providerStatus.instanceState = "<nil>"
    /\ ~Issued(last.calls, "InstanceGroupsAddInstances")

\* the link of the control-plane instance group among the backends of the
\* backend service, as the cloud answers it during the call
InBackends(backends) ==
    \E i \in 1..Len(backends) :
        backends[i] = <<"instanceGroups", ProjectID, last.pre.providerSpec.zone,
                        <<MapGet(last.pre.machine.labels, MachineClusterIDLabel), masterMachineRole,
                          last.pre.providerSpec.zone>>>>

\* the backend service was read by checkRegistrationOfBackend
BackendsChecked ==
    /\ IssuedFor(last.calls, "BackendServiceGet", "check")
    /\ ~Fails(last.env, "BackendServiceGet", "check")

\* C11: ensureInstanceGroup issues InstanceGroupInsert exactly when the
\* lookup of the group answers 404; it issues the patch of the backend
\* service only when the backends it read lack the group's link, and exactly
\* once when they do and the second read of the backend service succeeds;
\* with the group found and its link among the backends it issues neither
\* call and leaves the backends as they were.
EnsureInstanceGroupMutatesWhenMissing ==
    last.reg.called =>
        /\ IssuedFor(last.calls, "InstanceGroupGet", "")
        /\ Issued(last.calls, "InstanceGroupInsert") <=> Is404(InstanceGroupGet(last.cloud, last.env))
        /\ Count(last.calls, "InstanceGroupInsert", "") =< 1
        /\ Issued(last.calls, "AddInstanceGroupToBackendService") =>
              /\ BackendsChecked
              /\ ~InBackends(last.cloud.backends)
              /\ Count(last.calls, "AddInstanceGroupToBackendService", "") = 1
        /\ (BackendsChecked /\ ~InBackends(last.cloud.backends)) =>
              /\ IssuedFor(last.calls, "BackendServiceGet", "update")
              /\ ~Fails(last.env, "BackendServiceGet", "update") =>
                    Issued(last.calls, "AddInstanceGroupToBackendService")
              /\ (~Fails(last.env, "BackendServiceGet", "update")
                    /\ ~Fails(last.env, "AddInstanceGroupToBackendService", "")) =>
                    /\ InBackends(cloud.backends)
                    /\ Len(cloud.backends) = Len(last.cloud.backends) + 1
        /\ (InstanceGroupGet(last.cloud, last.env) = NoErr /\ InBackends(last.cloud.backends)) =>
              /\ ~Issued(last.calls, "InstanceGroupInsert")
              /\ ~Issued(last.calls, "AddInstanceGroupToBackendService")
              /\ cloud.backends = last.cloud.backends
              /\ cloud.group.present

EnsureInstanceGroupInsertsWitness ==
    /\ last.reg.called
    /\ ~last.cloud.group.present
    /\ Issued(last.calls, "InstanceGroupInsert")
    /\ Issued(last.calls, "AddInstanceGroupToBackendService")
    /\ cloud.group.present
    /\ InBackends(cloud.backends)
    /\ last.reg.ret = Nil

EnsureInstanceGroupIdleWitness ==
    /\ last.reg.called
    /\ last.cloud.group.present
    /\ InBackends(last.cloud.backends)
    /\ ~Issued(last.calls, "InstanceGroupInsert")
    /\ ~Issued(last.calls, "AddInstanceGroupToBackendService")
    /\ last.reg.ret = Nil

\* the latest call closed its scope
Closed == last.op \in {"create", "update"}

\* the provider status or the addresses of the scope differ from the
\* pristine copies when Close is called
StatusChanged ==
    \/ last.post.providerStatus # last.post.origProviderStatus
    \/ last.post.machine.addresses # last.post.origMachine.addresses

\* C12: Close writes the serialised provider status into the machine and
\* sets its last-updated time to the present, later than the stored one,
\* exactly when the provider status or the address list of the scope
\* differs from the pristine copies; when both are unchanged the serialised
\* status and the last-updated time of the machine, in the scope and as
\* stored, stay what they were, and when they changed and both patches
\* succeed the stored machine carries the new ones.
CloseWritesStatusOnChange ==
    Closed =>
        /\ last.close.wrote <=> StatusChanged
        /\ StatusChanged =>
              /\ last.close.s.machine.providerStatusRaw
                    = RawExtensionFromProviderStatus(last.post.providerStatus)
              /\ last.close.s.machine.lastUpdated = clock
              /\ last.close.s.machine.lastUpdated > last.pre.machine.lastUpdated
              /\ last.close.err = Nil =>
                    /\ machine.providerStatusRaw = last.close.s.machine.providerStatusRaw
                    /\ machine.lastUpdated = clock
                    /\ machine.addresses = last.post.machine.addresses
        /\ ~StatusChanged =>
              /\ last.close.s.machine.providerStatusRaw = last.pre.machine.providerStatusRaw
              /\ last.close.s.machine.lastUpdated = last.pre.machine.lastUpdated
              /\ machine.providerStatusRaw = last.pre.machine.providerStatusRaw
              /\ machine.lastUpdated = last.pre.machine.lastUpdated

CloseWritesStatusWitness ==
    /\ last.op = "update"
    /\ StatusChanged
    /\ last.close.err = Nil
    /\ machine.lastUpdated = clock
    /\ machine.lastUpdated > last.pre.machine.lastUpdated
    /\ machine.providerStatusRaw.present
    /\ machine.providerStatusRaw # last.pre.machine.providerStatusRaw

CloseSkipsStatusWitness ==
    /\ last.op = "update"
    /\ last.ret = Nil
    /\ ~StatusChanged
    /\ last.close.err = Nil
    /\ last.pre.machine.providerStatusRaw.present
    /\ machine.lastUpdated = last.pre.machine.lastUpdated

CloseWritesForAddressesWitness ==
    /\ last.op = "update"
    /\ last.post.providerStatus = last.post.origProviderStatus
    /\ last.post.machine.addresses # last.post.origMachine.addresses
    /\ last.close.err = Nil
    /\ machine.lastUpdated = clock
    /\ machine.lastUpdated > last.pre.machine.lastUpdated

\* the latest call built a scope and ran its reconciler
Scoped == last.op \in {"create", "update", "delete", "exists"}

\* the pristine copies of scope s are those the scope of the call was built
\* with
PristineKept(s) ==
    /\ s.origMachine = last.pre.origMachine
    /\ s.origProviderStatus = last.pre.origProviderStatus

\* C13: the pristine machine and the pristine provider status of a scope
\* are, after the reconciler ran, after its reconciliation with the cloud
\* state and after Close, the copies the scope was built with, whatever the
\* call changed in the working machine and the working provider status.
PristineCopiesNeverChange ==
    Scoped =>
        /\ last.pre.origMachine = last.pre.machine
        /\ last.pre.origProviderStatus = last.pre.providerStatus
        /\ PristineKept(last.post)
        /\ last.rmcs.called => PristineKept(last.rmcs.s)
        /\ Closed => PristineKept(last.close.s)

PristineCopiesWitness ==
    /\ last.op = "update"
    /\ last.ret = Nil
    /\ last.close.err = Nil
    /\ last.close.s.machine.labels # last.pre.machine.labels
    /\ last.close.s.machine.addresses # last.pre.machine.addresses
    /\ last.close.s.providerStatus.instanceState # last.pre.providerStatus.instanceState
    /\ last.close.s.providerStatus.conditions # last.pre.providerStatus.conditions
    /\ PristineKept(last.close.s)

\* C14: Close issues the merge-patch of the machine once and then, when that
\* patch succeeded, the merge-patch of its status once, and nothing else;
\* when the patch of the machine fails it issues no patch of the status,
\* returns an error and leaves the stored machine as it was; Close returns
\* success exactly when both patches succeeded.
ClosePatchesMachineThenStatus ==
    Closed =>
        /\ Len(last.close.patches) >= 1
        /\ last.close.patches[1] = "machine"
        /\ IF Fails(last.env, "Patch", "machine")
           THEN /\ last.close.patches = <<"machine">>
                /\ last.close.err # Nil
                /\ machine = last.pre.machine
           ELSE /\ last.close.patches = <<"machine", "status">>
                /\ last.close.err = Nil <=> ~Fails(last.env, "Patch", "status")
                /\ last.close.err = Nil => machine = last.close.s.machine

ClosePatchFailsWitness ==
    /\ Closed
    /\ Fails(last.env, "Patch", "machine")
    /\ last.close.patches = <<"machine">>
    /\ last.close.err # Nil
    /\ last.close.s.machine # last.pre.machine
    /\ machine = last.pre.machine

ClosePatchesBothWitness ==
    /\ Closed
    /\ last.close.patches = <<"machine", "status">>
    /\ last.close.err = Nil
    /\ machine # last.pre.machine

\* the call met a failing step of the construction of its scope
ScopeFaulted == last.env.scope \in ScopeFaults

\* C15: a call whose scope construction meets an undecodable provider spec
\* or provider status, unresolved credentials, or a compute or tag client
\* that cannot be built (or, beyond the claim's list, an unresolved project
\* ID or custom endpoint) gets an InvalidMachineConfiguration error from
\* newMachineScope and stops there: the reconciler does not run, nothing is
\* written, and the actuator hands back that error wrapped.
ScopeConstructionFailsInvalidConfiguration ==
    /\ ScopeFaulted =>
          /\ last.op = "scope"
          /\ isInvalidMachineConfigurationError(newMachineScopeErr(machine, last.env))
          /\ last.out.kind = "Wrapped"
          /\ last.out.cause = newMachineScopeErr(machine, last.env)
          /\ last.calls = <<>>
          /\ last.close.patches = <<>>
          /\ cloud = last.cloud
    /\ last.op = "scope" => ScopeFaulted

ScopeConstructionFailsWitness ==
    /\ last.op = "scope"
    /\ last.call = "Update"
    /\ last.env.scope = "tagService"
    /\ last.out.kind = "Wrapped"
    /\ last.out.cause.kind = "IC"

ScopeCredentialsFailWitness ==
    /\ last.op = "scope"
    /\ last.call = "Delete"
    /\ last.env.scope = "credentials"
    /\ last.out.cause.kind = "IC"

\* the latest call is one of the calls that emit events
Emitting == last.call \in {"Create", "Update", "Delete"}

SuccessEvent(action, text) == Event("Normal", <<action>>, <<text, MachineName>>)

FailureEvent(action) == Event("Warning", <<"Failed", action>>, last.out.msg)

\* the latest call follows an Update that succeeded, with the cloud and the
\* machine untouched in between, and is an Update that succeeded
SecondUpdate ==
    /\ prev.call = "Update"
    /\ last.call = "Update"
    /\ last.out = Nil

\* C16 as stated: every Create, Update and Delete emits exactly one event,
\* but for an Update that succeeded without a change of the resource
\* version, which emits none; and two Updates in a row that succeed over an
\* unchanged cloud emit exactly one event together.
OneEventPerCall ==
    /\ Emitting =>
          IF last.call = "Update" /\ last.out = Nil /\ ~last.close.versionChanged
          THEN last.events = <<>>
          ELSE Len(last.events) = 1
    /\ SecondUpdate => prev.events + Len(last.events) = 1

\* C16, amended: Create and Delete emit exactly one event, the warning
\* Failed<Action> carrying the error when the scope or the reconciler
\* failed and the success event otherwise.  Update emits exactly the
\* warning FailedUpdate when the scope or the reconciler failed, exactly the
\* event Updated when update and Close succeeded and the resource version
\* changed across Close, and no event otherwise.  Of two Updates in a row
\* that succeed over an unchanged cloud the second emits none, so together
\* they emit at most one.
EventsPerCall ==
    /\ (Emitting /\ last.call # "Update") =>
          /\ Len(last.events) = 1
          /\ IF last.op = "scope" \/ last.ret # Nil
             THEN /\ last.events[1] = FailureEvent(last.call)
                  /\ last.out.kind = "Wrapped"
             ELSE last.events[1] = SuccessEvent(last.call,
                                                IF last.call = "Create" THEN "Created Machine"
                                                ELSE "Deleted machine")
    /\ last.call = "Update" =>
          IF last.op = "scope" \/ last.ret # Nil
          THEN /\ last.events = <<FailureEvent("Update")>>
               /\ last.out.kind = "Wrapped"
          ELSE IF last.close.err = Nil /\ last.close.versionChanged
          THEN last.events = <<SuccessEvent("Update", "Updated Machine")>>
          ELSE last.events = <<>>
    /\ (last.op = "update" /\ last.ret = Nil /\ last.close.err = Nil) =>
          (last.close.versionChanged <=> machine # last.pre.machine)
    /\ SecondUpdate =>
          /\ last.events = <<>>
          /\ prev.events + Len(last.events) =< 1

EventsPerCallWitness ==
    /\ SecondUpdate
    /\ prev.events = 1
    /\ last.events = <<>>
    /\ last.close.err = Nil
    /\ ~last.close.versionChanged

EventsNoneOfTwoUpdatesWitness ==
    /\ SecondUpdate
    /\ prev.events = 0
    /\ last.events = <<>>

\* the call emitted a success event
EmittedSuccess == \E i \in 1..Len(last.events) : last.events[i].type = "Normal"

\* C17: a call whose reconciler succeeded emits its success event only
\* after Close persisted the scope, so a call whose Close failed has
\* emitted no success event.
SuccessEventOnlyAfterPersistence ==
    (Emitting /\ last.op # "scope" /\ last.ret = Nil /\ last.close.err # Nil) => ~EmittedSuccess

\* Update closed its scope without success and emitted nothing
UpdateSilentOnCloseFailure ==
    /\ last.op = "update"
    /\ last.ret = Nil
    /\ last.close.err # Nil
    /\ last.out = last.close.err
    /\ last.events = <<>>

\* Create emitted its success event and then failed to close its scope
CreateEmitsBeforeClose ==
    /\ last.op = "create"
    /\ last.ret = Nil
    /\ last.close.err # Nil
    /\ last.out = last.close.err
    /\ EmittedSuccess

\* the reconciler of the latest call returned the requeue signal
Requeued == Scoped /\ Emitting /\ last.ret.kind = "Requeue"

\* errors.As(err, *RequeueAfterError): the error is the requeue signal or
\* wraps it
CarriesRequeue(err) ==
    \/ err.kind = "Requeue"
    \/ err.kind = "Wrapped" /\ err.cause.kind = "Requeue"

\* C18 as stated: a requeue signal of the reconciler reaches the caller as
\* a requeue signal and the call emits no failure event.
RequeueIsNoFailure ==
    Requeued =>
        /\ CarriesRequeue(last.out)
        /\ \A i \in 1..Len(last.events) : last.events[i].type # "Warning"

\* C18, amended: a requeue signal of the reconciler reaches the caller
\* wrapped in the actuator's error, from which the caller can still take
\* the signal and its delay of 20 seconds; the actuator treats it as any
\* other error of the reconciler: Create and Update close the scope, and
\* the call emits the one warning event Failed<Action> and no success
\* event.
RequeueHandedBackAsWrappedError ==
    Requeued =>
        /\ last.out.kind = "Wrapped"
        /\ last.out.cause = last.ret
        /\ last.out.cause.after = requeueAfterSeconds
        /\ CarriesRequeue(last.out)
        /\ last.events = <<FailureEvent(last.call)>>
        /\ Closed => Len(last.close.patches) >= 1

RequeueHandedBackWitness ==
    /\ Requeued
    /\ last.call = "Delete"
    /\ Issued(last.calls, "InstancesDelete")
    /\ last.events = <<FailureEvent("Delete")>>
    /\ CarriesRequeue(last.out)

RequeueAfterCreateWitness ==
    /\ Requeued
    /\ last.call = "Create"
    /\ last.events = <<FailureEvent("Create")>>
    /\ last.close.err = Nil

(***************************************************************************)
(* Two reconcilers ensuring the control-plane instance group at once       *)
(*                                                                         *)
(* ensureInstanceGroup holds no lock and sends up to five requests to the  *)
(* cloud; in SpecEnsure each request of each reconciler is one step, and   *)
(* the steps of the two reconcilers interleave freely.  The reconcilers    *)
(* work for two master machines of the same cluster and zone, so both      *)
(* compute the group link of `machine'.  recon[p] holds the request that   *)
(* reconciler p sends next and the backend list it has read.               *)
(***************************************************************************)
Reconcilers == {"r1", "r2"}

MasterMachine == Machine(BaseSpec, Labels(ClusterID, masterMachineRole))

EnsureScope == newMachineScope(MasterMachine)

\* the environment of one request: it is answered, or it fails
RequestEnvs(name, arg) == {BaseEnv, [BaseEnv EXCEPT !.fail = {Call(name, arg)}]}

At(p, pc) == recon[p] = [recon[p] EXCEPT !.pc = pc]

Goto(p, pc) == recon' = [recon EXCEPT ![p].pc = pc]

EnsureInit ==
    /\ machine = MasterMachine
    /\ cloud \in {c \in Clouds : ~c.instance.present}
                 \cup {[c EXCEPT !.backends = Append(@, FQDNInstanceGroup(EnsureScope))] :
                          c \in {d \in Clouds : ~d.instance.present /\ d.group.present}}
    /\ clock = 0
    /\ last = NoLast
    /\ prev = NoPrev
    /\ merge = NoMerge
    /\ built = NoBuilt
    /\ filter = NoFilter
    /\ recon = [p \in Reconcilers |-> [pc |-> "InstanceGroupGet", backends |-> <<>>]]

\* ensureInstanceGroup, the lookup of the group
GroupGet(p) ==
    /\ At(p, "InstanceGroupGet")
    /\ \E env \in RequestEnvs("InstanceGroupGet", "") :
         Goto(p, IF isNotFoundError(InstanceGroupGet(cloud, env)) THEN "InstanceGroupInsert"
                 ELSE IF InstanceGroupGet(cloud, env) # NoErr THEN "failed"
                 ELSE "checkRegistrationOfBackend")
    /\ UNCHANGED <<machine, cloud, clock, last, prev, merge, built, filter>>

\* registerNewInstanceGroup; the cloud refuses to insert a group that the
\* other reconciler has inserted since the lookup
GroupInsert(p) ==
    /\ At(p, "InstanceGroupInsert")
    /\ \E env \in RequestEnvs("InstanceGroupInsert", "") :
         IF cloud.group.present \/ registerNewInstanceGroup(EnsureScope, cloud, env).err # Nil
         THEN Goto(p, "failed") /\ UNCHANGED cloud
         ELSE /\ Goto(p, "checkRegistrationOfBackend")
              /\ cloud' = registerNewInstanceGroup(EnsureScope, cloud, env).c
    /\ UNCHANGED <<machine, clock, last, prev, merge, built, filter>>

\* checkRegistrationOfBackend: the first read of the backend service
CheckRegistration(p) ==
    /\ At(p, "checkRegistrationOfBackend")
    /\ \E env \in RequestEnvs("BackendServiceGet", "check") :
         Goto(p, IF checkRegistrationOfBackend(EnsureScope, cloud, env).err # Nil THEN "failed"
                 ELSE IF checkRegistrationOfBackend(EnsureScope, cloud, env).registered THEN "done"
                 ELSE "BackendServiceGet")
    /\ UNCHANGED <<machine, cloud, clock, last, prev, merge, built, filter>>

\* updateBackendServiceWithInstanceGroup: the second read of the backend
\* service
BackendGet(p) ==
    /\ At(p, "BackendServiceGet")
    /\ \E env \in RequestEnvs("BackendServiceGet", "update") :
         IF Fails(env, "BackendServiceGet", "update")
         THEN Goto(p, "failed")
         ELSE recon' = [recon EXCEPT ![p] = [pc |-> "AddInstanceGroupToBackendService",
                                             backends |-> cloud.backends]]
    /\ UNCHANGED <<machine, cloud, clock, last, prev, merge, built, filter>>

\* updateBackendServiceWithInstanceGroup: the group is appended to the list
\* that was read and the backend service is patched with the result
BackendPatch(p) ==
    /\ At(p, "AddInstanceGroupToBackendService")
    /\ \E env \in RequestEnvs("AddInstanceGroupToBackendService", "") :
       \E u \in {updateBackendServiceWithInstanceGroup(
                     EnsureScope, [cloud EXCEPT !.backends = recon[p].backends], env)} :
         IF u.err # Nil
         THEN Goto(p, "failed") /\ UNCHANGED cloud
         ELSE /\ Goto(p, "done")
              /\ cloud' = [cloud EXCEPT !.backends = u.c.backends]
    /\ UNCHANGED <<machine, clock, last, prev, merge, built, filter>>

EnsureNext ==
    \E p \in Reconcilers :
        \/ GroupGet(p) \/ GroupInsert(p) \/ CheckRegistration(p)
        \/ BackendGet(p) \/ BackendPatch(p)

SpecEnsure == EnsureInit /\ [][EnsureNext]_vars

Racing == DOMAIN recon = Reconcilers

\* the entries of the backend service for the control-plane group
GroupEntries ==
    Cardinality({i \in 1..Len(cloud.backends) : cloud.backends[i] = FQDNInstanceGroup(EnsureScope)})

BothEnsured == Racing /\ \A p \in Reconcilers : recon[p].pc = "done"

\* C19: when two reconciliations ensure the same control-plane instance
\* group as a backend of the shared backend service at the same time and
\* both return success, the backend service holds exactly one entry for the
\* group, whatever the interleaving of their reads and patches.
BackendRegisteredOnce == BothEnsured => GroupEntries = 1

\* the half of C19 that the code keeps: no registration is lost
BackendNeverLost == BothEnsured => GroupEntries >= 1

BackendRegisteredTwice == BothEnsured /\ GroupEntries = 2

BackendRegisteredOnceWitness ==
    /\ BothEnsured
    /\ GroupEntries = 1
    /\ \A p \in Reconcilers : recon[p].backends # <<>>

\* the inputs of SpecLabels
PlatformStatuses ==
    {[nil |-> TRUE, resourceLabels |-> [nil |-> TRUE, list |-> <<>>]],
     [nil |-> FALSE, resourceLabels |-> [nil |-> TRUE, list |-> <<>>]]}
      \cup {[nil |-> FALSE, resourceLabels |-> [nil |-> FALSE, list |-> ResourceLabels(to, own)]] :
               to \in 0..MaxLabelKey, own \in BOOLEAN}

\* the labels of the provider spec start at key1 or where those of the
\* infrastructure end
ProviderSpecLabels(platform) ==
    {NilMap}
      \cup {MakeMap([k \in SourceKeys(from, to, own) |-> "spec"]) :
               from \in {1, Cardinality(DOMAIN getInfraResourceLabels(platform).m) + 1},
               to \in 0..MaxLabelKey, own \in BOOLEAN}

NoLabels == [labels |-> NilMap, err |-> Nil]

LabelsInit ==
    /\ machine = MasterMachine
    /\ cloud \in {c \in Clouds : ~c.instance.present /\ ~c.group.present}
    /\ clock = 0
    /\ last = NoLast
    /\ prev = NoPrev
    /\ recon = NoRecon
    /\ built = NoBuilt
    /\ filter = NoFilter
    /\ \E clusterID \in {ClusterID, ""} :
       \E platform \in PlatformStatuses :
       \E providerSpecLabels \in ProviderSpecLabels(platform) :
          merge = [clusterID |-> clusterID, platform |-> platform,
                   providerSpecLabels |-> providerSpecLabels, called |-> FALSE, out |-> NoLabels]

MergeLabels ==
    /\ merge # NoMerge
    /\ ~merge.called
    /\ merge' = [merge EXCEPT !.called = TRUE,
                              !.out = GetLabelsList(merge.clusterID, merge.platform,
                                                    merge.providerSpecLabels)]
    /\ UNCHANGED <<machine, cloud, clock, last, prev, recon, built, filter>>

SpecLabels == LabelsInit /\ [][MergeLabels]_vars

Merged == merge # NoMerge /\ merge.called

InfraKeys ==
    IF merge.platform.nil \/ merge.platform.resourceLabels.nil THEN {}
    ELSE {merge.platform.resourceLabels.list[i][1] :
             i \in 1..Len(merge.platform.resourceLabels.list)}

\* the labels that the infrastructure and the provider spec declare
\* together, the ownership label left out
UserLabels ==
    (InfraKeys \cup DOMAIN merge.providerSpecLabels.m) \ {ocpDefaultLabel(merge.clusterID)}

\* C20: whenever the labels declared by the infrastructure and by the
\* provider spec together, the ownership label excluded, are more than 32,
\* the label merge returns an error and no label set.
LabelMergeOverLimitFails ==
    (Merged /\ Cardinality(UserLabels) > 32) =>
        /\ merge.out.err # Nil
        /\ merge.out.labels = NilMap

\* 33 labels together, of which neither source declares more than 32
LabelMergeOverLimitWitness ==
    /\ Merged
    /\ merge.clusterID # ""
    /\ Cardinality(UserLabels) = 33
    /\ Cardinality(InfraKeys) =< 32
    /\ Cardinality(DOMAIN merge.providerSpecLabels.m) =< 32
    /\ merge.out.err # Nil
    /\ merge.out.labels = NilMap

\* 33 declared labels of which one is the ownership label: the merge succeeds
LabelMergeAtLimitWitness ==
    /\ Merged
    /\ Cardinality(InfraKeys \cup DOMAIN merge.providerSpecLabels.m) = 33
    /\ Cardinality(UserLabels) = 32
    /\ merge.out.err = Nil
    /\ Cardinality(DOMAIN merge.out.labels.m) = 33

(***************************************************************************)
(* util.GetTagsList: the merge of the tags of a resource                   *)
(*                                                                         *)
(* SpecTags draws the platform status (with its GCP part, which the        *)
(* function dereferences) and the provider spec, and its one action merges *)
(* their tags.  The list that toTagValueList returns is built in the       *)
(* iteration order of a Go map, which is unspecified: it is the set of its *)
(* elements here.                                                          *)
(***************************************************************************)
\* the number of tags that a VM instance takes
tagLimit == 50

getInfraResourceTagsList(platformStatus) ==
    IF ~platformStatus.nil /\ ~platformStatus.resourceTags.nil
    THEN MakeMap([k \in {platformStatus.resourceTags.list[i][1] :
                            i \in 1..Len(platformStatus.resourceTags.list)} |->
                    LastValue(platformStatus.resourceTags.list, k)])
    ELSE NilMap

getOrganizationID(source1, source2) == IF source1 # "" THEN source1 ELSE source2

NilList == [nil |-> TRUE, list |-> {}]

toTagValueList(orgID, tags) ==
    IF Cardinality(DOMAIN tags.m) < 0 THEN NilList
    ELSE [nil |-> FALSE, list |-> {<<orgID, k, tags.m[k]>> : k \in DOMAIN tags.m}]

GetTagsList(platformStatus, providerSpec) ==
    IF /\ Cardinality(DOMAIN getInfraResourceTagsList(platformStatus).m) < 0
       /\ Cardinality(DOMAIN providerSpec.userTags.m) < 0
    THEN [tags |-> NilList, err |-> Nil]
    ELSE IF platformStatus.organizationID = "" /\ providerSpec.organizationID = ""
    THEN [tags |-> NilList, err |-> Errorf(<<"organizationID must be defined">>)]
    ELSE IF getInfraResourceTagsList(platformStatus).nil
    THEN [tags |-> toTagValueList(
                       getOrganizationID(platformStatus.organizationID, providerSpec.organizationID),
                       providerSpec.userTags),
          err |-> Nil]
    ELSE IF Cardinality(DOMAIN Overlay(getInfraResourceTagsList(platformStatus).m,
                                       providerSpec.userTags.m)) > tagLimit
    THEN [tags |-> NilList, err |-> Errorf(<<"maximum of 50 tags can be added to a VM instance">>)]
    ELSE [tags |-> toTagValueList(
                       getOrganizationID(platformStatus.organizationID, providerSpec.organizationID),
                       MakeMap(Overlay(getInfraResourceTagsList(platformStatus).m,
                                       providerSpec.userTags.m))),
          err |-> Nil]

ResourceTags(to) ==
    [i \in 1..to |-> <<LabelKey(i), "infra">>]
      \o (IF to > 0 THEN << <<LabelKey(1), "infra again">> >> ELSE <<>>)

TagPlatformStatuses ==
    {[nil |-> FALSE, organizationID |-> org, resourceTags |-> tags] :
        org \in {"", "org"},
        tags \in {[nil |-> TRUE, list |-> <<>>]}
                   \cup {[nil |-> FALSE, list |-> ResourceTags(to)] : to \in 0..MaxTagKey}}

\* the tags of the provider spec start at key1 or where those of the
\* infrastructure end
TagProviderSpecs(platformStatus) ==
    {[organizationID |-> org, userTags |-> tags] :
        org \in {"", "spec org"},
        tags \in {NilMap}
                   \cup {MakeMap([k \in SourceKeys(from, to, FALSE) |-> "spec"]) :
                            from \in {1, Cardinality(DOMAIN getInfraResourceTagsList(platformStatus).m) + 1},
                            to \in 0..MaxTagKey}}

NoTags == [tags |-> NilList, err |-> Nil]

TagsInit ==
    /\ machine = MasterMachine
    /\ cloud \in {c \in Clouds : ~c.instance.present /\ ~c.group.present}
    /\ clock = 0
    /\ last = NoLast
    /\ prev = NoPrev
    /\ recon = NoRecon
    /\ built = NoBuilt
    /\ filter = NoFilter
    /\ \E platformStatus \in TagPlatformStatuses :
       \E providerSpec \in TagProviderSpecs(platformStatus) :
          merge = [platformStatus |-> platformStatus, providerSpec |-> providerSpec,
                   called |-> FALSE, out |-> NoTags]

MergeTags ==
    /\ merge # NoMerge
    /\ ~merge.called
    /\ merge' = [merge EXCEPT !.called = TRUE,
                              !.out = GetTagsList(merge.platformStatus, merge.providerSpec)]
    /\ UNCHANGED <<machine, cloud, clock, last, prev, recon, built, filter>>

SpecTags == TagsInit /\ [][MergeTags]_vars

InfraTagKeys ==
    IF merge.platformStatus.resourceTags.nil THEN {}
    ELSE {merge.platformStatus.resourceTags.list[i][1] :
             i \in 1..Len(merge.platformStatus.resourceTags.list)}

\* the tags that the infrastructure and the provider spec declare together
MergedTagKeys == InfraTagKeys \cup DOMAIN merge.providerSpec.userTags.m

\* C21: whenever the merged set of infrastructure and provider spec tags has
\* more than 50 entries, the tag merge returns an error and no tags, also
\* when the infrastructure declares no tags and the provider spec alone
\* declares more than 50.
TagMergeOverLimitFails ==
    (Merged /\ Cardinality(MergedTagKeys) > 50) =>
        /\ merge.out.err # Nil
        /\ merge.out.tags = NilList

\* the part of C21 that the code keeps: with tags declared by the
\* infrastructure the limit is enforced
TagMergeOverLimitFailsWithInfraTags ==
    (Merged /\ ~merge.platformStatus.resourceTags.nil /\ Cardinality(MergedTagKeys) > 50) =>
        /\ merge.out.err # Nil
        /\ merge.out.tags = NilList

TagMergeOverLimitPassesWitness ==
    /\ Merged
    /\ merge.platformStatus.resourceTags.nil
    /\ Cardinality(MergedTagKeys) = 51
    /\ merge.out.err = Nil
    /\ Cardinality(merge.out.tags.list) = 51

TagResolutionFails ==
    /\ last.op = "create"
    /\ last.env.tagsEnabled
    /\ \E name \in MergedTags : GetNamespacedName(last.env, name).err # NoErr
    /\ validateMachine(last.pre.machine, last.pre.providerSpec) = Nil
    /\ ~last.env.labelsErr

\* C22: when one of the merged tags does not resolve through the tag service
\* (not found, permission denied or internal error), tag resolution returns
\* an error and no tags, not the tags that did resolve, and create() returns
\* that error without inserting an instance.
TagResolutionFailsAsAWhole ==
    TagResolutionFails =>
        /\ GetResourceManagerTags(last.env).err # Nil
        /\ GetResourceManagerTags(last.env).tags = NilMap
        /\ last.ret.kind = "Error"
        /\ ~Issued(last.calls, "InstancesInsert")
        /\ cloud.instance = last.cloud.instance

TagResolutionFailsWitness ==
    /\ TagResolutionFails
    /\ last.env.tagsErr = ErrTagNotFound
    /\ \E name \in MergedTags : GetNamespacedName(last.env, name).err = NoErr
    /\ last.ret.kind = "Error"

\* C23: every label merge that succeeds returns a label set which holds the
\* cluster ownership label with the value "owned", whatever value the
\* infrastructure or the provider spec gives for that key.
LabelMergeKeepsOwnership ==
    (Merged /\ merge.out.err = Nil) =>
        /\ ~merge.out.labels.nil
        /\ ocpDefaultLabel(merge.clusterID) \in DOMAIN merge.out.labels.m
        /\ merge.out.labels.m[ocpDefaultLabel(merge.clusterID)] = "owned"

\* both the infrastructure and the provider spec give the ownership label
\* a value of their own
LabelMergeKeepsOwnershipWitness ==
    /\ Merged
    /\ merge.out.err = Nil
    /\ ocpDefaultLabel(merge.clusterID) \in InfraKeys
    /\ MapGet(merge.providerSpecLabels.m, ocpDefaultLabel(merge.clusterID)) = "spec"
    /\ merge.out.labels.m[ocpDefaultLabel(merge.clusterID)] = "owned"
    /\ Cardinality(DOMAIN merge.out.labels.m) > 1

LabelLimitExceededInCreate ==
    /\ last.op = "create"
    /\ validateMachine(last.pre.machine, last.pre.providerSpec) = Nil
    /\ machineLabels(last.pre, last.env).err # Nil
    /\ Len(InfraPlatformStatus(last.env).resourceLabels.list) > labelLimit

\* C24: when the label merge fails because more labels are declared than the
\* limit allows, create() returns an error that is an invalid machine
\* configuration, not an error that the caller retries.
LabelLimitIsInvalidConfiguration ==
    LabelLimitExceededInCreate => isInvalidMachineConfigurationError(last.ret)

\* what create() does return: a plain error, with no call to the cloud
LabelLimitIsPlainError ==
    LabelLimitExceededInCreate =>
        /\ last.ret.kind = "Error"
        /\ last.calls = <<>>

LabelLimitExceededWitness == LabelLimitExceededInCreate /\ last.ret.kind = "Error"

ValidationFailedInExists ==
    /\ last.ex.called
    /\ validateMachine(last.pre.machine, last.pre.providerSpec) # Nil

\* C25: when the validation of the spec fails inside exists() (an empty
\* target pool name or no cluster label), the error that exists() returns is
\* an invalid machine configuration, which delete() and Actuator.Exists
\* recognise as one.
ExistsValidationIsInvalidConfiguration ==
    ValidationFailedInExists => isInvalidMachineConfigurationError(last.ex.err)

\* what exists() does return: a plain error that carries the text of the
\* validation error, so delete() hands it on instead of refusing or skipping
ExistsValidationIsPlainError ==
    ValidationFailedInExists =>
        /\ last.ex.err.kind = "Error"
        /\ last.ex.calls = <<>>
        /\ last.op = "delete" => last.ret = last.ex.err

ExistsValidationWitness ==
    /\ ValidationFailedInExists
    /\ last.op = "delete"
    /\ isInvalidMachineConfigurationError(validateMachine(last.pre.machine, last.pre.providerSpec))
    /\ last.ret.kind = "Error"

(***************************************************************************)
(* create(): the scheduling and the metadata of the instance descriptor    *)
(*                                                                         *)
(* SpecInstance draws what these two parts of the descriptor are built     *)
(* from: the restart policy and the preemptible flag, the OS label of the  *)
(* machine, the metadata of the provider spec and the user data that       *)
(* getCustomUserData returned; its one action builds them.  A text is a    *)
(* sequence of tokens, a *string a record [nil, text].                     *)
(***************************************************************************)
windowsScriptMetadataKey == "sysprep-specialize-script-ps1"

NilPtr == [nil |-> TRUE, text |-> <<>>]

Ptr(text) == [nil |-> FALSE, text |-> text]

\* windows.IsMachineOSWindows: the OS label of the machine says Windows
IsMachineOSWindows(labels) == MapGet(labels, "machine.openshift.io/os-id") = "Windows"

\* windows.RemovePowershellTags: the text without the <powershell> tags that
\* enclose it
RemovePowershellTags(text) ==
    IF Len(text) >= 2 /\ text[1] = "<powershell>" /\ text[Len(text)] = "</powershell>"
    THEN SubSeq(text, 2, Len(text) - 1)
    ELSE text

\* create(): the loop over the metadata of the provider spec, appending the
\* entries for the user data key as well
RECURSIVE metadataItemsAppendingAll(_, _, _)
metadataItemsAppendingAll(items, metadata, userdataKey) ==
    IF metadata = <<>> THEN items
    ELSE metadataItemsAppendingAll(Append(items, Head(metadata)), Tail(metadata), userdataKey)

\* create(): the loop over the metadata of the provider spec; items holds
\* the entry for the user data first
RECURSIVE metadataItems(_, _, _)
metadataItems(items, metadata, userdataKey) ==
    IF metadata = <<>> THEN items
    ELSE IF Head(metadata).key = userdataKey
    THEN metadataItems([items EXCEPT ![1].value = Head(metadata).value], Tail(metadata), userdataKey)
    ELSE metadataItems(Append(items, Head(metadata)), Tail(metadata), userdataKey)

userdataKeyOf(labels) ==
    IF IsMachineOSWindows(labels) THEN windowsScriptMetadataKey ELSE "user-data"

\* create(): instance.Metadata.Items
instanceMetadata(labels, metadata, userData) ==
    metadataItems(<<[key |-> userdataKeyOf(labels),
                     value |-> Ptr(IF IsMachineOSWindows(labels)
                                   THEN RemovePowershellTags(userData) ELSE userData)]>>,
                  metadata, userdataKeyOf(labels))

MetadataItem(key, value) == [key |-> key, value |-> value]

RestartPolicies == {"", "Always", "Never", "always", "Sometimes"}

OsLabels ==
    {EmptyMap} \cup {[k \in {"machine.openshift.io/os-id"} |-> os] : os \in {"Windows", "Linux"}}

UserDatas == {<<>>, <<"script">>, <<"<powershell>", "script", "</powershell>">>}

SpecMetadatas ==
    {<<>>,
     <<MetadataItem("other", Ptr(<<"x">>))>>,
     <<MetadataItem("user-data", Ptr(<<"declared">>))>>,
     <<MetadataItem(windowsScriptMetadataKey, Ptr(<<"<powershell>", "declared", "</powershell>">>))>>,
     <<MetadataItem("user-data", NilPtr), MetadataItem(windowsScriptMetadataKey, NilPtr)>>,
     <<MetadataItem("user-data", Ptr(<<"first">>)), MetadataItem("other", Ptr(<<"x">>)),
       MetadataItem(windowsScriptMetadataKey, Ptr(<<"first">>)),
       MetadataItem("user-data", Ptr(<<"second">>)),
       MetadataItem(windowsScriptMetadataKey, Ptr(<<"second">>))>>}

NoRestart == [value |-> NoBool, err |-> Nil]

InstanceInit ==
    /\ machine = MasterMachine
    /\ cloud \in {c \in Clouds : ~c.instance.present /\ ~c.group.present}
    /\ clock = 0
    /\ last = NoLast
    /\ prev = NoPrev
    /\ recon = NoRecon
    /\ merge = NoMerge
    /\ filter = NoFilter
    /\ \E policy \in RestartPolicies, preemptible \in BOOLEAN, labels \in OsLabels :
       \E metadata \in SpecMetadatas, userData \in UserDatas :
          built = [restartPolicy |-> policy, preemptible |-> preemptible, labels |-> labels,
                   metadata |-> metadata, userData |-> userData,
                   called |-> FALSE, automaticRestart |-> NoRestart, items |-> <<>>]

\* create() from the restart policy to the metadata: a restart policy that
\* does not resolve ends create() before the metadata is built
BuildInstance ==
    /\ built # NoBuilt
    /\ ~built.called
    /\ built' = [built EXCEPT
          !.called = TRUE,
          !.automaticRestart = restartPolicyToBool(built.restartPolicy, built.preemptible),
          !.items = IF restartPolicyToBool(built.restartPolicy, built.preemptible).err # Nil
                    THEN <<>>
                    ELSE instanceMetadata(built.labels, built.metadata, built.userData)]
    /\ UNCHANGED <<machine, cloud, clock, last, prev, recon, merge, filter>>

SpecInstance == InstanceInit /\ [][BuildInstance]_vars

Built == built # NoBuilt /\ built.called

\* C26: restartPolicyToBool gives no value and no error for the empty
\* policy, true for Always on a machine that is not preemptible, the error
\* "preemptible instances cannot be automatically restarted" for Always on
\* a preemptible machine, false for Never, and an "unrecognized restart
\* policy" error for every other policy.
RestartPolicyToBoolTable ==
    Built =>
        /\ built.restartPolicy = "" =>
              built.automaticRestart = [value |-> NoBool, err |-> Nil]
        /\ (built.restartPolicy = "Always" /\ ~built.preemptible) =>
              built.automaticRestart = [value |-> "true", err |-> Nil]
        /\ (built.restartPolicy = "Always" /\ built.preemptible) =>
              /\ built.automaticRestart.value = NoBool
              /\ built.automaticRestart.err.kind = "Error"
              /\ built.automaticRestart.err.msg =
                    <<"preemptible instances cannot be automatically restarted">>
        /\ built.restartPolicy = "Never" =>
              built.automaticRestart = [value |-> "false", err |-> Nil]
        /\ built.restartPolicy \notin {"", "Always", "Never"} =>
              /\ built.automaticRestart.value = NoBool
              /\ built.automaticRestart.err.kind = "Error"
              /\ built.automaticRestart.err.msg[1] = "unrecognized restart policy"

RestartPolicyAlwaysPreemptibleWitness ==
    /\ Built
    /\ built.restartPolicy = "Always"
    /\ built.preemptible
    /\ built.automaticRestart.err # Nil

RestartPolicyNeverPreemptibleWitness ==
    /\ Built
    /\ built.restartPolicy = "Never"
    /\ built.preemptible
    /\ built.automaticRestart.value = "false"

DescriptorBuilt == Built /\ built.automaticRestart.err = Nil

DeclaredFor(key) == {i \in 1..Len(built.metadata) : built.metadata[i].key = key}

\* the value that the user data entry is to carry
ExpectedUserData ==
    IF DeclaredFor(userdataKeyOf(built.labels)) # {}
    THEN built.metadata[CHOOSE i \in DeclaredFor(userdataKeyOf(built.labels)) :
                            \A j \in DeclaredFor(userdataKeyOf(built.labels)) : j =< i].value
    ELSE IF ~IsMachineOSWindows(built.labels) THEN Ptr(built.userData)
    ELSE IF built.userData = <<"<powershell>", "script", "</powershell>">> THEN Ptr(<<"script">>)
    ELSE Ptr(built.userData)

\* C28: the metadata of the instance descriptor holds exactly one entry for
\* the user data key, which is the Windows script key for a Windows machine
\* and user-data otherwise; its value is the one that the provider spec
\* declares for that key, if it declares one, and else the user data of the
\* secret, without its <powershell> tags for a Windows machine.
UserDataMetadataEntry ==
    DescriptorBuilt =>
        /\ Cardinality({i \in 1..Len(built.items) :
                          built.items[i].key = userdataKeyOf(built.labels)}) = 1
        /\ userdataKeyOf(built.labels) =
              (IF MapGet(built.labels, "machine.openshift.io/os-id") = "Windows"
               THEN "sysprep-specialize-script-ps1" ELSE "user-data")
        /\ \A i \in 1..Len(built.items) :
              built.items[i].key = userdataKeyOf(built.labels) =>
                 built.items[i].value = ExpectedUserData

\* a Windows machine whose secret holds a script in <powershell> tags
UserDataWindowsWitness ==
    /\ DescriptorBuilt
    /\ IsMachineOSWindows(built.labels)
    /\ built.userData = <<"<powershell>", "script", "</powershell>">>
    /\ built.metadata = <<MetadataItem("other", Ptr(<<"x">>))>>
    /\ built.items = <<MetadataItem(windowsScriptMetadataKey, Ptr(<<"script">>)),
                       MetadataItem("other", Ptr(<<"x">>))>>

\* a Windows machine whose provider spec declares the script itself
UserDataDeclaredWitness ==
    /\ DescriptorBuilt
    /\ IsMachineOSWindows(built.labels)
    /\ built.userData = <<"script">>
    /\ Len(built.metadata) = 1
    /\ built.metadata[1].key = windowsScriptMetadataKey
    /\ Len(built.items) = 1
    /\ built.items[1].value = Ptr(<<"<powershell>", "declared", "</powershell>">>)

\* the accelerator whose quota create() looks at: the one of the provider
\* spec, or the one that comes with an a2 machine type
QuotaAccelerator(spec) ==
    IF spec.machineType \in DOMAIN a2MachineFamily THEN a2MachineFamily[spec.machineType]
    ELSE spec.gpus[1]

QuotaMetricOf(spec) ==
    IF spec.preemptible
    THEN <<"PREEMPTIBLE", supportedGpuTypes(QuotaAccelerator(spec).type)>>
    ELSE <<supportedGpuTypes(QuotaAccelerator(spec).type)>>

\* usage plus the configured or implied count is above the limit of the
\* accelerator's metric
QuotaExceeded(spec, quotas) ==
    /\ spec.machineType \in DOMAIN a2MachineFamily \/ Len(spec.gpus) = 1
    /\ \E i \in 1..Len(quotas) :
          /\ quotas[i].metric = QuotaMetricOf(spec)
          /\ quotas[i].usage + QuotaAccelerator(spec).count > quotas[i].limit

AcceleratorFault(spec, quotas) ==
    \/ Len(spec.gpus) > 1
    \/ HasFamily(spec.machineType, "a2") /\ Len(spec.gpus) > 0
    \/ Len(spec.gpus) > 0 /\ ~HasFamily(spec.machineType, "n1") /\ ~HasFamily(spec.machineType, "a2")
    \/ QuotaExceeded(spec, quotas)

CreateWithAcceleratorFault ==
    /\ last.op = "create"
    /\ AcceleratorFault(last.pre.providerSpec, last.env.quotas)

\* the steps of create() that end it with a plain error before it looks at
\* the accelerators
LabelsOrTagsFailed ==
    \/ machineLabels(last.pre, last.env).err # Nil
    \/ last.env.tagsEnabled /\ GetResourceManagerTags(last.env).err # Nil

AcceleratorImpliedQuotaWitness ==
    /\ CreateWithAcceleratorFault
    /\ last.pre.providerSpec.gpus = <<>>
    /\ QuotaExceeded(last.pre.providerSpec, last.env.quotas)
    /\ last.ret.kind = "IC"

AcceleratorFaultAfterLabelsWitness ==
    /\ CreateWithAcceleratorFault
    /\ machineLabels(last.pre, last.env).err # Nil
    /\ last.ret.kind = "Error"

\* i is the first place of a call of that name in calls
FirstCall(calls, name, i) ==
    /\ i \in 1..Len(calls)
    /\ calls[i][1] = name
    /\ \A j \in 1..(i - 1) : calls[j][1] # name

\* every call named later comes after a call named earlier
Precedes(calls, earlier, later) ==
    \A i \in 1..Len(calls) :
        calls[i][1] = later => \E j \in 1..(i - 1) : calls[j][1] = earlier

DeleteOfMaster ==
    /\ last.op = "delete"
    /\ MapGet(last.pre.machine.labels, openshiftMachineRoleLabel) = masterMachineRole

\* the removal from the control-plane instance group was started and failed:
\* the list of the group's instances failed, or the removal request did
UnregistrationFailed ==
    /\ DeleteOfMaster
    /\ Issued(last.calls, "InstanceGroupsListInstances")
    /\ \/ Fails(last.env, "InstanceGroupsListInstances", "")
       \/ ~last.cloud.group.present
       \/ /\ Issued(last.calls, "InstanceGroupsRemoveInstances")
          /\ Fails(last.env, "InstanceGroupsRemoveInstances", "")

\* C29: delete() of a control-plane machine issues InstancesDelete only after
\* the removal from the control-plane instance group succeeded in the same
\* call; when the removal fails, a failed list of the group's instances
\* included, delete() returns an error and issues no InstancesDelete.
DeleteOnlyAfterUnregistration ==
    DeleteOfMaster =>
        /\ Issued(last.calls, "InstancesDelete") =>
              /\ Precedes(last.calls, "InstanceGroupsListInstances", "InstancesDelete")
              /\ \A i \in 1..Len(last.calls) :
                    last.calls[i][1] = "InstanceGroupsRemoveInstances" =>
                        \E j \in (i + 1)..Len(last.calls) : last.calls[j][1] = "InstancesDelete"
              /\ ~UnregistrationFailed
        /\ UnregistrationFailed =>
              /\ IsError(last.ret)
              /\ ~Issued(last.calls, "InstancesDelete")
              /\ cloud.instance = last.cloud.instance

\* InstancesDelete after a removal from the group that succeeded
DeleteAfterUnregistrationWitness ==
    /\ DeleteOfMaster
    /\ \E i \in 1..Len(last.calls) :
          /\ FirstCall(last.calls, "InstanceGroupsRemoveInstances", i)
          /\ \E j \in (i + 1)..Len(last.calls) : last.calls[j][1] = "InstancesDelete"
    /\ last.ret.kind = "Requeue"

\* the list of the group's instances failed
DeleteListFailedWitness ==
    /\ UnregistrationFailed
    /\ Fails(last.env, "InstanceGroupsListInstances", "")
    /\ last.cloud.instance.present
    /\ IsError(last.ret)

\* the removal request failed
DeleteRemoveFailedWitness ==
    /\ UnregistrationFailed
    /\ Fails(last.env, "InstanceGroupsRemoveInstances", "")
    /\ IsError(last.ret)

PoolCall(call) == call[1] \in PoolCalls

\* the target-pool calls of the call come before all its other calls
PoolCallsFirst(calls) ==
    \A i, j \in 1..Len(calls) : PoolCall(calls[i]) /\ ~PoolCall(calls[j]) => i < j

\* a failure while synchronising a pool: the look at the pool or the removal
\* request failed
PoolSyncFailed ==
    /\ last.op = "delete"
    /\ \E i \in 1..Len(last.calls) :
          /\ PoolCall(last.calls[i])
          /\ \/ Fails(last.env, last.calls[i][1], last.calls[i][2])
             \/ last.calls[i][2] \notin DOMAIN last.cloud.pools

DeletedLink == fmtInstanceSelfLink(last.pre.projectID, last.pre.providerSpec.zone, MachineName)

InPool(c, pool) ==
    /\ pool \in DOMAIN c.pools
    /\ \E k \in 1..Len(c.pools[pool]) : c.pools[pool][k] = DeletedLink

\* the call took the instance out of every pool of the spec that held it
PoolsRemoved ==
    \A k \in 1..Len(last.pre.providerSpec.targetPools) :
        LET pool == last.pre.providerSpec.targetPools[k]
        IN /\ IssuedFor(last.calls, "TargetPoolsGet", pool)
           /\ InPool(last.cloud, pool) =>
                 /\ IssuedFor(last.calls, "TargetPoolsRemoveInstance", pool)
                 /\ ~InPool(cloud, pool)

\* delete() refused the call for a machine with a provider ID whose
\* configuration is invalid
DeleteRefused ==
    /\ last.op = "delete"
    /\ last.ex.called
    /\ last.pre.machine.providerID # NoProviderID
    /\ isInvalidMachineConfigurationError(last.ex.err)

\* delete() found the instance absent
DeleteFoundAbsent ==
    /\ last.op = "delete"
    /\ last.ex.called
    /\ last.ex.err = Nil
    /\ ~last.ex.found

\* C30: delete() removes the instance from the target pools before the
\* existence and configuration check: the removals are issued also in calls
\* that are then refused for invalid configuration or that find the instance
\* absent, and a failure while synchronising a pool ends the call at once,
\* with neither the existence check nor InstancesDelete.
DeletePoolsBeforeExistence ==
    last.op = "delete" =>
        /\ PoolCallsFirst(last.calls)
        /\ last.ex.called => PoolsRemoved
        /\ PoolSyncFailed =>
              /\ IsError(last.ret)
              /\ ~last.ex.called
              /\ ~Issued(last.calls, "InstancesGet")
              /\ ~Issued(last.calls, "InstancesDelete")
              /\ PoolCall(last.calls[Len(last.calls)])
              /\ cloud.instance = last.cloud.instance

\* a removal from a pool in a call that is then refused
DeletePoolsRefusedWitness ==
    /\ DeleteRefused
    /\ Issued(last.calls, "TargetPoolsRemoveInstance")
    /\ IsError(last.ret)

\* a removal from a pool in a call that finds the instance absent
DeletePoolsAbsentWitness ==
    /\ DeleteFoundAbsent
    /\ Issued(last.calls, "TargetPoolsRemoveInstance")
    /\ last.ret = Nil

\* a failed removal from a pool
DeletePoolFailedWitness ==
    /\ PoolSyncFailed
    /\ Issued(last.calls, "TargetPoolsRemoveInstance")
    /\ last.cloud.instance.present

\* the latest call is an update() that follows an Update that succeeded and
\* was persisted, with the cloud and the machine untouched in between
UpdateAgain ==
    /\ prev.call = "Update"
    /\ last.op = "update"

MutatingUpdateCalls ==
    {"TargetPoolsAddInstance", "InstanceGroupInsert", "AddInstanceGroupToBackendService",
     "InstanceGroupsAddInstances"}

\* update() left the status of the machine as it found it, in the scope and
\* in the stored machine
StatusLeftAlone ==
    /\ last.post.providerStatus = last.pre.providerStatus
    /\ last.post.machine.addresses = last.pre.machine.addresses
    /\ last.post.machine.providerID = last.pre.machine.providerID
    /\ machine.providerStatusRaw = last.pre.machine.providerStatusRaw
    /\ machine.addresses = last.pre.machine.addresses
    /\ machine.providerID = last.pre.machine.providerID
    /\ machine.lastUpdated = last.pre.machine.lastUpdated

\* C31 as stated: an update() that follows an update() that succeeded and was
\* persisted, over a cloud that is otherwise unchanged, issues no mutating
\* cloud call (no target-pool add, no instance-group insert, no
\* backend-service patch, no add-instances) and leaves the provider status,
\* the addresses and the provider ID unchanged.
UpdateIsIdempotent ==
    UpdateAgain =>
        /\ \A i \in 1..Len(last.calls) : last.calls[i][1] \notin MutatingUpdateCalls
        /\ StatusLeftAlone

\* C31 as the code has it: the second update() issues no target-pool add,
\* no instance-group insert and no backend-service patch and leaves the
\* provider status, the addresses and the provider ID unchanged; it issues
\* add-instances only for a control-plane machine that the running list of
\* the group lacks (the first call skipped the registration because the
\* stored status did not record RUNNING yet), and then the instance is a
\* member of the group.
UpdateIsIdempotentButForRegistration ==
    UpdateAgain =>
        /\ \A i \in 1..Len(last.calls) :
              last.calls[i][1] \notin MutatingUpdateCalls \ {"InstanceGroupsAddInstances"}
        /\ StatusLeftAlone
        /\ cloud.pools = last.cloud.pools
        /\ cloud.backends = last.cloud.backends
        /\ cloud.instance = last.cloud.instance
        /\ Issued(last.calls, "InstanceGroupsAddInstances") =>
              /\ MapGet(last.pre.machine.labels, openshiftMachineRoleLabel) = masterMachineRole
              /\ fmtInstanceSelfLink(last.pre.projectID, last.pre.providerSpec.zone, MachineName)
                    \notin last.cloud.group.instances
              /\ StringDeref(last.pre.providerStatus.instanceState) = "RUNNING"

\* a second update() that changes nothing, for a machine in target pools
UpdateAgainIdleWitness ==
    /\ UpdateAgain
    /\ last.ret = Nil
    /\ Len(last.pre.providerSpec.targetPools) > 0
    /\ \A i \in 1..Len(last.calls) : last.calls[i][1] \notin MutatingUpdateCalls
    /\ cloud = last.cloud

\* a second update() that registers the control-plane machine
UpdateAgainRegistersWitness ==
    /\ UpdateAgain
    /\ last.ret = Nil
    /\ Issued(last.calls, "InstanceGroupsAddInstances")
    /\ StatusLeftAlone

\* an update() of a control-plane machine whose instance runs, in which no
\* cloud call and no patch fails
UpdateOfRunningMaster ==
    /\ last.op = "update"
    /\ MapGet(last.pre.machine.labels, openshiftMachineRoleLabel) = masterMachineRole
    /\ last.cloud.instance.present
    /\ last.cloud.instance.status = "RUNNING"
    /\ last.env = BaseEnv
    /\ \A k \in 1..Len(last.pre.providerSpec.targetPools) :
          last.pre.providerSpec.targetPools[k] \in DOMAIN last.cloud.pools

StoredInstanceState(m) ==
    StringDeref(ProviderStatusFromRawExtension(m.providerStatusRaw).instanceState)

GroupMember ==
    fmtInstanceSelfLink(last.pre.projectID, last.pre.providerSpec.zone, MachineName)
        \in cloud.group.instances

\* after the call the instance is in the group, or will be after the next
\* call: the stored status records RUNNING, which is what the next call
\* needs to add the instance
MemberWithinTwoCalls ==
    /\ StoredInstanceState(last.pre.machine) = "RUNNING" => GroupMember
    /\ GroupMember \/ StoredInstanceState(machine) = "RUNNING"
    /\ prev.call = "Update" => GroupMember

RunningMasterFirstUpdateWitness ==
    /\ UpdateOfRunningMaster
    /\ StoredInstanceState(last.pre.machine) # "RUNNING"
    /\ ~Issued(last.calls, "InstanceGroupsAddInstances")
    /\ ~GroupMember
    /\ StoredInstanceState(machine) = "RUNNING"

RunningMasterWithoutInterfaceWitness ==
    /\ UpdateOfRunningMaster
    /\ Len(last.cloud.instance.nics) = 0
    /\ ~GroupMember
    /\ StoredInstanceState(machine) # "RUNNING"
    /\ IsError(last.ret)

(***************************************************************************)
(* Deletion, re-invoked until it ends                                      *)
(*                                                                         *)
(* The machine controller calls Delete for a machine that is being         *)
(* deleted and calls it again until it returns terminal success.  No       *)
(* cloud call fails, and the cloud removes an instance some time after it  *)
(* accepted InstancesDelete, whatever the controller does meanwhile.       *)
(***************************************************************************)
\* the clouds of Clouds, and those where the running instance is in the
\* first target pool and, the group being there, in the instance group
DeletingClouds ==
    Clouds \cup
    {[c EXCEPT !.pools["p1"] = Append(@, fmtInstanceSelfLink(ProjectID, BaseSpec.zone, MachineName)),
               !.group.instances =
                   IF c.group.present
                   THEN @ \cup {fmtInstanceSelfLink(ProjectID, BaseSpec.zone, MachineName)}
                   ELSE @] :
        c \in {d \in Clouds : d.instance.present /\ d.instance.status = "RUNNING"}}

\* the machines of Machines, marked for deletion, with and without a
\* provider ID
DeletingMachines ==
    {[m EXCEPT !.deleting = TRUE] : m \in Machines}
      \cup {[m EXCEPT !.deleting = TRUE,
                      !.providerID = <<"gce", ProjectID, m.providerSpec.zone, MachineName>>] :
              m \in Machines}

DeletingInit ==
    /\ machine \in DeletingMachines
    /\ cloud \in DeletingClouds
    /\ clock = 0
    /\ last = NoLast
    /\ prev = NoPrev
    /\ recon = NoRecon
    /\ merge = NoMerge
    /\ built = NoBuilt
    /\ filter = NoFilter

\* Actuator.Delete with no failing call
DeleteUnfailing ==
    /\ UNCHANGED aside
    /\ last = NoLast
    /\ machine.deleting
    /\ newMachineScopeErr(machine, BaseEnv) = Nil
    /\ \E r \in {delete(newMachineScope(machine), cloud, BaseEnv)} :
        /\ cloud' = r.c
        /\ last' = Record("delete", BaseEnv, newMachineScope(machine), r, NoClose,
                           "Delete", DeleteOutcome(r))
        /\ UNCHANGED <<machine, clock, prev>>

\* the machine controller calls Delete again after the requeue signal, and
\* after an error as well; terminal success ends the run
DeleteReinvoked ==
    /\ UNCHANGED aside
    /\ last # NoLast
    /\ last.ret # Nil
    /\ last' = NoLast
    /\ prev' = [call |-> last.call, events |-> Len(last.events)]
    /\ UNCHANGED <<machine, cloud, clock>>

\* the cloud finishes a deletion that InstancesDelete started
InstanceGone ==
    /\ UNCHANGED aside
    /\ cloud.instance.present
    /\ cloud.instance.status = "STOPPING"
    /\ cloud' = [cloud EXCEPT !.instance = NoInstance]
    /\ UNCHANGED <<machine, clock, last, prev>>

DeletingNext == DeleteUnfailing \/ DeleteReinvoked \/ InstanceGone

\* the controller re-invokes, and the cloud removes what it agreed to delete
SpecDeleting ==
    /\ DeletingInit
    /\ [][DeletingNext]_vars
    /\ WF_vars(DeleteUnfailing)
    /\ WF_vars(DeleteReinvoked)
    /\ WF_vars(InstanceGone)

DeleteSucceeded ==
    /\ last.op = "delete"
    /\ last.ret = Nil

\* no call of delete() can fail: the cloud has the target pools that the
\* spec names and, for a control-plane machine, the instance group
CloudAnswers ==
    /\ \A k \in 1..Len(machine.providerSpec.targetPools) :
          machine.providerSpec.targetPools[k] \in DOMAIN cloud.pools
    /\ MapGet(machine.labels, openshiftMachineRoleLabel) = masterMachineRole => cloud.group.present

DeletableMachine == validateMachine(machine, machine.providerSpec) = Nil

\* C33 as stated: with delete() re-invoked after every requeue signal, no
\* cloud call failing and the cloud removing the instance once it accepted
\* InstancesDelete, some delete() call returns terminal success.
DeleteEventuallySucceeds == CloudAnswers ~> DeleteSucceeded

\* C33 for a machine whose spec validates: some delete() call returns
\* terminal success.  delete() of a machine whose spec does not validate
\* returns the error of the existence check, whatever the cloud holds.
DeleteOfValidMachineEventuallySucceeds == (CloudAnswers /\ DeletableMachine) ~> DeleteSucceeded

\* terminal success after a requeue
DeleteSucceedsAfterRequeueWitness ==
    /\ DeleteSucceeded
    /\ prev.call = "Delete"
    /\ last.ex.called
    /\ ~last.ex.found
    /\ ~cloud.instance.present

\* a machine without the cluster label: no call failed, delete() returned
\* an error
DeleteOfInvalidMachineWitness ==
    /\ last.op = "delete"
    /\ CloudAnswers
    /\ ~DeletableMachine
    /\ last.ex.called
    /\ last.ex.calls = <<>>
    /\ IsError(last.ret)
    /\ machine.providerID = NoProviderID

\* the conditions of type MachineCreated in a condition list
CreatedConditions(conditions) == SelectSeq(conditions, LAMBDA x : x.type = MachineCreated)

StoredConditions == ProviderStatusFromRawExtension(machine.providerStatusRaw).conditions

CreateOrUpdate == last.op \in {"create", "update"}

\* the call got as far as recording a condition: the failure of the insert,
\* or the success once the instance and its network interface were fetched
ConditionRecorded ==
    /\ last.rmcs.called
    /\ \/ last.rmcs.cond # NoCondition
       \/ last.rmcs.ret = Nil
       \/ last.rmcs.ret.kind = "Requeue"

RecordedCondition ==
    IF last.rmcs.cond # NoCondition THEN last.rmcs.cond ELSE succeedCondition

\* the condition that tells the outcome of the call: the failure for a call
\* that returned an error, the success otherwise
TellsOutcome(cond) ==
    IF IsError(last.ret)
    THEN cond.status = "False" /\ cond.reason = "MachineCreationFailed"
    ELSE cond = succeedCondition

\* C34 as stated: after any sequence of create and update reconciliations,
\* failed or successful, the condition list holds at most one condition of
\* type MachineCreated, and it carries the reason, message and status of the
\* most recent outcome.
ConditionTellsLatestOutcome ==
    CreateOrUpdate =>
        /\ Len(CreatedConditions(last.post.providerStatus.conditions)) <= 1
        /\ \A i \in 1..Len(last.post.providerStatus.conditions) :
              last.post.providerStatus.conditions[i].type = MachineCreated =>
                  TellsOutcome(last.post.providerStatus.conditions[i])

\* C34 as the code has it: the stored list and the list of the scope hold at
\* most one condition of type MachineCreated.  A call that records a
\* condition (a create() whose insert failed, a create() or update() whose
\* reconciliation with the cloud state fetched the instance and its network
\* interface) leaves exactly that condition as the one of its type; any
\* other call, failed or not, leaves the list as it found it.  What Close
\* persists is the list of the scope.
ConditionTellsLatestRecordedOutcome ==
    /\ Len(CreatedConditions(StoredConditions)) <= 1
    /\ CreateOrUpdate =>
          /\ Len(CreatedConditions(last.post.providerStatus.conditions)) <= 1
          /\ IF ConditionRecorded
             THEN CreatedConditions(last.post.providerStatus.conditions) = <<RecordedCondition>>
             ELSE last.post.providerStatus.conditions = last.pre.providerStatus.conditions
          /\ last.rmcs.cond # NoCondition =>
                /\ last.rmcs.cond = failedCondition(last.insert.text)
                /\ IsError(last.ret)
          /\ last.close.err = Nil => StoredConditions = last.post.providerStatus.conditions

\* a failure replaces the success recorded earlier
ConditionReplacedWitness ==
    /\ last.op = "create"
    /\ last.pre.providerStatus.conditions = <<succeedCondition>>
    /\ last.rmcs.cond # NoCondition
    /\ last.post.providerStatus.conditions = <<last.rmcs.cond>>
    /\ StoredConditions = <<last.rmcs.cond>>

\* a success replaces the failure recorded earlier
ConditionSucceedsAfterFailureWitness ==
    /\ CreateOrUpdate
    /\ Len(last.pre.providerStatus.conditions) = 1
    /\ last.pre.providerStatus.conditions[1].reason = "MachineCreationFailed"
    /\ StoredConditions = <<succeedCondition>>

\* an update() that failed leaves the success recorded earlier
ConditionStaleWitness ==
    /\ last.op = "update"
    /\ IsError(last.ret)
    /\ last.post.providerStatus.conditions = <<succeedCondition>>

\* Actuator.Exists whose existence check ended with an invalid machine
\* configuration
ExistsFoundInvalidConfiguration ==
    /\ last.call = "Exists"
    /\ last.ex.called
    /\ isInvalidMachineConfigurationError(last.ex.err)

\* C35: when the existence check of the reconciler yields an invalid machine
\* configuration, Actuator.Exists returns (false, no error) if and only if
\* the machine is in phase Deleting and carries no provider ID; in every
\* other case it returns the configuration error.
ExistsForgivesOnlyDeletingWithoutProviderID ==
    ExistsFoundInvalidConfiguration =>
        /\ ~last.ex.found
        /\ last.out = Nil <=> (machine.deleting /\ machine.providerID = NoProviderID)
        /\ last.out # Nil =>
              /\ last.out = last.ex.err
              /\ isInvalidMachineConfigurationError(last.out)

\* the machine is being deleted and has no provider ID: no error
ExistsForgivesWitness ==
    /\ ExistsFoundInvalidConfiguration
    /\ machine.deleting
    /\ machine.providerID = NoProviderID
    /\ last.out = Nil

\* the machine is being deleted and has a provider ID: the error
ExistsKeepsErrorWitness ==
    /\ ExistsFoundInvalidConfiguration
    /\ machine.deleting
    /\ machine.providerID # NoProviderID
    /\ last.out = last.ex.err

\* the machine is not being deleted: the error
ExistsKeepsErrorOfLiveMachineWitness ==
    /\ ExistsFoundInvalidConfiguration
    /\ ~machine.deleting
    /\ last.out = last.ex.err

\* what Close writes of the stored machine: the spec, the status and the
\* time stamp of the last update
Persisted(m) ==
    [providerSpec |-> m.providerSpec, providerID |-> m.providerID, labels |-> m.labels,
     annotations |-> m.annotations, specLabels |-> m.specLabels, addresses |-> m.addresses,
     providerStatusRaw |-> m.providerStatusRaw, lastUpdated |-> m.lastUpdated]

\* the step is a call of Actuator.Exists or Actuator.Delete
ExistsOrDeleteCalled ==
    /\ last = NoLast
    /\ last' # NoLast
    /\ last'.call \in {"Exists", "Delete"}

\* C36: Actuator.Exists and Actuator.Delete never close the scope: whatever
\* the reconciler returned they issue no patch of the stored resource or of
\* its status, so the stored spec, the stored status and the time stamp of
\* the last update change only in Create and Update calls.
ExistsAndDeleteNeverClose ==
    /\ [](last.call \in {"Exists", "Delete"} =>
             /\ last.close = NoClose
             /\ last.op \in {"exists", "delete"} => Persisted(machine) = Persisted(last.pre.machine))
    /\ [][/\ ExistsOrDeleteCalled => machine' = machine /\ clock' = clock
          /\ Persisted(machine') # Persisted(machine) =>
                /\ last = NoLast
                /\ last'.call \in {"Create", "Update"}]_vars

\* a Delete that issued InstancesDelete for a machine with a stored status
DeleteLeavesStoredMachineWitness ==
    /\ last.call = "Delete"
    /\ Issued(last.calls, "InstancesDelete")
    /\ machine.providerStatusRaw.present
    /\ last.ret.kind = "Requeue"
    /\ machine = last.pre.machine
    /\ last.close = NoClose

\* an Exists that classified a failed lookup for a machine with a stored
\* status
ExistsLeavesStoredMachineWitness ==
    /\ last.call = "Exists"
    /\ last.ex.called
    /\ IsError(last.ex.err)
    /\ machine.providerStatusRaw.present
    /\ machine = last.pre.machine

\* Close issued both patches and both were accepted
BothPatchesAccepted ==
    /\ last.call \in {"Create", "Update"}
    /\ last.close.patches = <<"machine", "status">>
    /\ last.close.err = Nil

\* C37: the patch of the status sub-resource that Close issues carries the
\* status that the reconciliation computed (addresses, serialised provider
\* status, time stamp of the last update), not the status that the server
\* answered the patch of the main resource with, which is the stored one.
StatusPatchCarriesComputedStatus ==
    BothPatchesAccepted =>
        /\ StatusOf(machine) = StatusOf(last.close.s.machine)
        /\ machine.providerStatusRaw =
              IF last.close.wrote
              THEN RawExtensionFromProviderStatus(last.post.providerStatus)
              ELSE last.pre.machine.providerStatusRaw
        /\ machine.addresses = last.post.machine.addresses
        /\ last.close.wrote => machine.lastUpdated = clock

\* the computed status differs from the stored one in the addresses, the
\* provider status and the time stamp
StatusPatchCarriesWitness ==
    /\ BothPatchesAccepted
    /\ last.close.wrote
    /\ machine.addresses # last.pre.machine.addresses
    /\ machine.providerStatusRaw # last.pre.machine.providerStatusRaw
    /\ machine.lastUpdated # last.pre.machine.lastUpdated
    /\ StatusOf(machine) = StatusOf(last.close.s.machine)

\* create() got as far as the scan of the region's quota list: the region and
\* the accelerator type were fetched and the accelerator type has a metric
QuotaScanned ==
    /\ last.op = "create"
    /\ Issued(last.calls, "AcceleratorTypeGet")
    /\ ~Fails(last.env, "RegionGet", "")
    /\ ~Fails(last.env, "AcceleratorTypeGet", "")
    /\ supportedGpuTypes(QuotaAccelerator(last.pre.providerSpec).type) # ""

\* the region reports no quota for the metric of the accelerator
NoQuotaEntry ==
    \A i \in 1..Len(last.env.quotas) :
        last.env.quotas[i].metric # QuotaMetricOf(last.pre.providerSpec)

NoQuotaFoundReturned ==
    /\ last.ret = InvalidMachineConfiguration(<<"No quota found">>)
    /\ ~Issued(last.calls, "InstancesInsert")

\* C38: the accelerator quota check fails with the invalid machine
\* configuration 'No quota found' whenever the region reports no quota entry
\* for the metric of the accelerator, the empty quota list included.
NoQuotaEntryIsInvalidConfiguration ==
    QuotaScanned /\ NoQuotaEntry => NoQuotaFoundReturned

\* what the code does: 'No quota found' is returned from inside the loop over
\* the quota list, at its last entry; a list that is not empty and lacks the
\* metric fails, the empty list passes the check
NoQuotaEntryFailsButForEmptyList ==
    QuotaScanned /\ NoQuotaEntry =>
        IF last.env.quotas = <<>>
        THEN /\ last.ret # InvalidMachineConfiguration(<<"No quota found">>)
             /\ Issued(last.calls, "InstancesInsert")
        ELSE NoQuotaFoundReturned

\* a list with other metrics only: the check fails
NoQuotaEntryWitness ==
    /\ QuotaScanned
    /\ NoQuotaEntry
    /\ last.env.quotas # <<>>
    /\ NoQuotaFoundReturned

\* the empty list: the instance is inserted
EmptyQuotaListWitness ==
    /\ QuotaScanned
    /\ last.env.quotas = <<>>
    /\ Issued(last.calls, "InstancesInsert")
    /\ last.insert = NoErr
    /\ cloud.instance.present

(***************************************************************************)
(* getFilteredTagList: the duplicate-tag filter before the tag bindings    *)
(*                                                                         *)
(* The filter marks the tags of its list that the effective tags of the    *)
(* instance hold already and hands back the others.  It reads the          *)
(* effective tags through the iterator of ListEffectiveTags.  What the     *)
(* iterator answers is drawn at the start: the bindings it yields, and how *)
(* it ends, with iterator.Done or with another error.  An iterator that    *)
(* has failed answers every later Next() with the same error.              *)
(***************************************************************************)
\* the tags that a tag list or a binding can name; "t0" is in no tag list
FilterTags == {"t1", "t2", "t3"}

BoundTags == FilterTags \cup {"t0"}

\* Largest number of bindings that the listing yields before it ends.
MaxBindings == 2

Listings ==
    {[items |-> items, end |-> end] :
        items \in UNION {[1..n -> BoundTags] : n \in 0..MaxBindings},
        end \in {"Done", "Error"}}

\* dupTags[k] = false for every tag of the list
FilterInit ==
    /\ machine = MasterMachine
    /\ cloud \in {c \in Clouds : ~c.instance.present /\ ~c.group.present}
    /\ clock = 0
    /\ last = NoLast
    /\ prev = NoPrev
    /\ recon = NoRecon
    /\ merge = NoMerge
    /\ built = NoBuilt
    /\ \E tagList \in SUBSET FilterTags, listing \in Listings :
          filter = [tagList |-> tagList, listing |-> listing, pc |-> "start",
                    dupTags |-> [k \in tagList |-> FALSE], failed |-> FALSE,
                    binding |-> "", read |-> "nil", filteredTags |-> {}]

\* the map and the call of ListEffectiveTags
FilterStart ==
    /\ filter # NoFilter
    /\ filter.pc = "start"
    /\ filter' = [filter EXCEPT !.pc = "next"]
    /\ UNCHANGED <<machine, cloud, clock, last, prev, recon, merge, built>>

\* binding, read := bindings.Next(): the next binding, or a nil binding with
\* iterator.Done or with the error of the listing.  The tag value of a nil
\* binding is the empty string.
FilterCallNext ==
    /\ filter # NoFilter
    /\ filter.pc = "next"
    /\ filter' =
          IF filter.listing.items # <<>>
          THEN [filter EXCEPT !.pc = "test", !.read = "nil",
                              !.binding = Head(filter.listing.items),
                              !.listing.items = Tail(@)]
          ELSE IF filter.listing.end = "Done"
          THEN [filter EXCEPT !.pc = "test", !.read = "Done", !.binding = ""]
          ELSE [filter EXCEPT !.pc = "test", !.read = "Error", !.binding = "", !.failed = TRUE]
    /\ UNCHANGED <<machine, cloud, clock, last, prev, recon, merge, built>>

\* read == iterator.Done: the loop ends and the tags that are not marked are
\* handed back
FilterBreak ==
    /\ filter # NoFilter
    /\ filter.pc = "test"
    /\ filter.read = "Done"
    /\ filter' = [filter EXCEPT !.pc = "returned",
                                !.filteredTags = {k \in filter.tagList : ~filter.dupTags[k]}]
    /\ UNCHANGED <<machine, cloud, clock, last, prev, recon, merge, built>>

\* any other answer: the tag of the binding is marked when the list has it,
\* and the loop goes on to the next Next()
FilterMark ==
    /\ filter # NoFilter
    /\ filter.pc = "test"
    /\ filter.read # "Done"
    /\ filter' = [filter EXCEPT
                    !.pc = "next",
                    !.dupTags = IF filter.binding \in DOMAIN @
                                THEN [@ EXCEPT ![filter.binding] = TRUE]
                                ELSE @]
    /\ UNCHANGED <<machine, cloud, clock, last, prev, recon, merge, built>>

FilterNext == FilterStart \/ FilterCallNext \/ FilterBreak \/ FilterMark

\* the function runs on: every step that it can take is taken in the end
SpecFilter == FilterInit /\ [][FilterNext]_vars /\ WF_vars(FilterNext)

FilterReturned == filter.pc = "returned"

\* C39: the duplicate-tag filter that runs before the tag bindings ends for
\* every behaviour of the listing of the effective tags, also when the
\* listing answers with an error other than the end of the iteration.
FilterTerminates == <>FilterReturned

\* what the code does: the filter ends when the listing ends with
\* iterator.Done, and then hands back the tags of its list that no binding
\* named; after another error it is in its loop for good
FilterTerminatesOnDone ==
    /\ (filter.listing.end = "Done") ~> FilterReturned
    /\ [](FilterReturned =>
             filter.filteredTags = {k \in filter.tagList : ~filter.dupTags[k]})
    /\ [](filter.failed => [](filter.pc \in {"next", "test"}))

\* the filter ended and dropped a tag that is bound already
FilterReturnedWitness ==
    /\ FilterReturned
    /\ filter.filteredTags # filter.tagList
    /\ filter.filteredTags # {}

\* the listing failed: the filter is in its loop
FilterLoopsWitness ==
    /\ filter.pc = "next"
    /\ filter.failed
    /\ filter.listing.items = <<>>
    /\ filter.tagList # {}

====
